---- MODULE Spec2Model ----
(***************************************************************************)
(* A model of the expense dashboard: the chat panel's asynchronous query   *)
(* pipeline (ChatInterface.jsx, pythonRunner.js) and the data engine       *)
(* (dataProcessor.js, analysisTools.js, InsightCards.jsx).                 *)
(***************************************************************************)
EXTENDS Integers, Sequences, FiniteSets, TLC

(***************************************************************************)
(* Bounds of the model.                                                    *)
(***************************************************************************)
\* handleSend executions started in one behaviour
MaxSends == 2
\* initializeOllama executions started in one behaviour
MaxInits == 2
\* rows of the collections given to filterData and getAggregatedStats
MaxRows == 2
\* instants of one calendar day that the model tells apart
TicksPerDay == 2
\* records of the filtered data given to InsightCards
MaxRecords == 4
\* data-bearing days of the filtered data given to TrendLine
MaxTrendDays == 11
\* dataset loads (file uploads and demo loads) started in one behaviour
MaxLoads == 3
\* runPython executions started in one behaviour
MaxRuns == 2

VARIABLES
    \* App.jsx / ChatInterface.jsx: React state of the chat panel
    showChat, isLoading, isConnected, selectedModel, input, messages,
    \* the asynchronous executions of initializeOllama and handleSend
    inits, sends,
    \* pythonRunner.js: the module variable and the interpreters it has held
    pyodide, ready, loadCalls, resolvedTo,
    \* the date-fns major version the build resolves (2: isWithinInterval
    \* throws on a reversed interval; 3: it swaps the ends)
    dateFns,
    \* the data engine: a record collection, the filters and what filterData,
    \* getAggregatedStats and InsightCards computed from them
    data, filters, filtered, refiltered, stats, insight,
    \* App.jsx: the sheet rows of the file last read and how the promise of
    \* processExcelFile settled on them; the rawData state, the mounted
    \* FileUploader, the executions of handleFileUpload and handleUseDemo, and
    \* the isDemo and dateBounds state
    sheet, parsed, rawData, uploader, loads, isDemo, dateBounds,
    \* what the charts and the other core operations computed: TrendLine,
    \* CalendarHeatmap, ExpenseHeatmap, calculateMetrics, getPromptMetadata
    trend, correlation, heatmap, metrics, metadata,
    \* the runPython executions called with a snippet; what YearComparison and
    \* ForOthersPie computed; the hooks of the mounted CalendarHeatmap; the
    \* compareYear and showCharts.yearComparison state of App.jsx
    pyRuns, series, split, hooks, compare

chatVars == <<showChat, isLoading, isConnected, selectedModel, input, messages,
              inits, sends, pyodide, ready, loadCalls, resolvedTo>>

dataVars == <<dateFns, data, filters, filtered, refiltered, stats, insight>>

appVars == <<sheet, parsed, rawData, uploader, loads, isDemo, dateBounds>>

moreVars == <<pyRuns, series, split, hooks, compare>>

viewVars == <<trend, correlation, heatmap, metrics, metadata, moreVars>>

vars == <<chatVars, dataVars, appVars, viewVars>>

Max(a, b) == IF a >= b THEN a ELSE b

(***************************************************************************)
(* String.prototype.trim on the inputs the model types.                    *)
(***************************************************************************)
Trim(s) == IF s = " " THEN "" ELSE s

(***************************************************************************)
(* pythonRunner.js: initPyodide.  The module state is passed as a record   *)
(* g = [pyodide, ready, loadCalls]; pyodide is 0 for null, else the id of  *)
(* the interpreter; ready[id] is 0 for a bare interpreter, 1 once          *)
(* loadPackage has finished on it, 2 once plotly is installed.             *)
(***************************************************************************)
Globals == [pyodide |-> pyodide, ready |-> ready, loadCalls |-> loadCalls]

\* initPyodide from its call to its first suspension (or its return)
InitPyodideCall(g) ==
    IF g.pyodide # 0
    THEN [st |-> "resolved", ret |-> g.pyodide, pc |-> "done", tgt |-> 0, g |-> g]
    ELSE [st |-> "pending", ret |-> 0, pc |-> "pyLoad", tgt |-> 0,
          g |-> [g EXCEPT !.loadCalls = @ + 1]]

\* initPyodide resumed at the await it is suspended on; ok: the awaited
\* promise fulfilled (else it rejected and the call rejects)
InitPyodideResume(g, pc, tgt, ok) ==
    CASE pc = "pyLoad" ->
            IF ok
            THEN LET id == Len(g.ready) + 1
                 IN  [st |-> "pending", ret |-> 0, pc |-> "pyPkg", tgt |-> id,
                      g |-> [g EXCEPT !.pyodide = id, !.ready = Append(@, 0)]]
            ELSE [st |-> "rejected", ret |-> 0, pc |-> "done", tgt |-> 0, g |-> g]
      [] pc = "pyPkg" ->
            IF ok
            THEN LET g1 == [g EXCEPT !.ready[tgt] = Max(@, 1)]
                 IN  \* pyodide.pyimport("micropip") on the current module variable
                     IF g1.ready[g1.pyodide] >= 1
                     THEN [st |-> "pending", ret |-> 0, pc |-> "pyInstall",
                           tgt |-> g1.pyodide, g |-> g1]
                     ELSE [st |-> "rejected", ret |-> 0, pc |-> "done", tgt |-> 0, g |-> g1]
            ELSE [st |-> "rejected", ret |-> 0, pc |-> "done", tgt |-> 0, g |-> g]
      [] OTHER ->
            IF ok
            THEN [st |-> "resolved", ret |-> g.pyodide, pc |-> "done", tgt |-> 0,
                  g |-> [g EXCEPT !.ready[tgt] = 2]]
            ELSE [st |-> "rejected", ret |-> 0, pc |-> "done", tgt |-> 0, g |-> g]

PyPcs == {"pyLoad", "pyPkg", "pyInstall"}

SetGlobals(g) ==
    /\ pyodide' = g.pyodide
    /\ ready' = g.ready
    /\ loadCalls' = g.loadCalls

(***************************************************************************)
(* ChatInterface.jsx: initializeOllama.                                    *)
(***************************************************************************)
\* the synchronous start: setIsLoading(true), then the connection check
StartInitializeOllama ==
    /\ isLoading' = TRUE
    /\ inits' = Append(inits, [pc |-> "check", tgt |-> 0])

\* the panel's toggle button and its close button; opening runs the effect
ToggleChat ==
    /\ showChat' = ~showChat
    /\ IF ~showChat
       THEN /\ Len(inits) < MaxInits
            /\ StartInitializeOllama
       ELSE UNCHANGED <<isLoading, inits>>
    /\ UNCHANGED <<isConnected, selectedModel, input, messages, sends,
                   pyodide, ready, loadCalls, resolvedTo>>
    /\ UNCHANGED <<dataVars, appVars, viewVars>>

\* the Retry button, shown while offline and idle
Retry ==
    /\ showChat /\ ~isConnected /\ ~isLoading
    /\ Len(inits) < MaxInits
    /\ StartInitializeOllama
    /\ UNCHANGED <<showChat, isConnected, selectedModel, input, messages, sends,
                   pyodide, ready, loadCalls, resolvedTo>>
    /\ UNCHANGED <<dataVars, appVars, viewVars>>

\* initializeOllama resumed at its await; ok is the awaited outcome
\* (connected; a non-empty model list; the interpreter step fulfilled)
InitializeOllamaResume(i, ok) ==
    /\ inits[i].pc # "done"
    /\ LET pc == inits[i].pc
           r  == IF pc = "list" THEN InitPyodideCall(Globals)
                 ELSE IF pc \in PyPcs
                      THEN InitPyodideResume(Globals, pc, inits[i].tgt, ok)
                      ELSE [st |-> "none", ret |-> 0, pc |-> "done", tgt |-> 0, g |-> Globals]
       IN  /\ SetGlobals(r.g)
           /\ resolvedTo' = IF r.st = "resolved" THEN resolvedTo \cup {r.ret} ELSE resolvedTo
           /\ isConnected' = IF pc = "check" THEN ok ELSE isConnected
           /\ selectedModel' = IF pc = "list" /\ ok THEN "m" ELSE selectedModel
           /\ IF pc = "check" /\ ok
              THEN /\ inits' = [inits EXCEPT ![i].pc = "list"]
                   /\ UNCHANGED isLoading
              ELSE IF r.st = "pending"
                   THEN /\ inits' = [inits EXCEPT ![i] = [pc |-> r.pc, tgt |-> r.tgt]]
                        /\ UNCHANGED isLoading
                   ELSE \* finally
                        /\ inits' = [inits EXCEPT ![i] = [pc |-> "done", tgt |-> 0]]
                        /\ isLoading' = FALSE
    /\ UNCHANGED <<showChat, input, messages, sends>>
    /\ UNCHANGED <<dataVars, appVars, viewVars>>

(***************************************************************************)
(* ChatInterface.jsx: the input field and handleSend.                      *)
(***************************************************************************)
\* typing (the field is enabled) or a suggestion button (no message yet)
SetInput(s) ==
    /\ showChat /\ isConnected
    /\ \/ ~isLoading
       \/ messages = <<>> /\ s = "q"
    /\ input' = s
    /\ UNCHANGED <<showChat, isLoading, isConnected, selectedModel, messages,
                   inits, sends, pyodide, ready, loadCalls, resolvedTo>>
    /\ UNCHANGED <<dataVars, appVars, viewVars>>

\* the code argument of the k-th runPython call of handleSend
CodeArg(call) == IF call = 1 THEN "null" ELSE "snippet"

NewSend == [pc |-> "fetch", call |-> 1, tgt |-> 0, backend |-> FALSE,
            backendDown |-> FALSE, extFail |-> FALSE, notice |-> FALSE,
            requested |-> FALSE, executed |-> FALSE, final |-> "none"]

\* Enter or the send button, up to the fetch of the first runPython call
HandleSend ==
    /\ showChat /\ isConnected /\ ~isLoading
    /\ Trim(input) # "" /\ selectedModel # ""
    /\ Len(sends) < MaxSends
    /\ messages' = Append(messages, "user")
    /\ input' = ""
    /\ isLoading' = TRUE
    /\ sends' = Append(sends, NewSend)
    /\ UNCHANGED <<showChat, isConnected, selectedModel, inits,
                   pyodide, ready, loadCalls, resolvedTo>>
    /\ UNCHANGED <<dataVars, appVars, viewVars>>

\* a faulty variant: the catch appends no message
SendCatchSilent(s) == [s EXCEPT !.pc = "done", !.final = "none"]

\* handleSend's catch and finally
SendCatch(s) == [s EXCEPT !.pc = "done", !.final = "error"]
\* handleSend's last setMessages and finally
SendFinal(s) == [s EXCEPT !.pc = "done", !.final = "assistant"]

\* runPython after initPyodide resolved: the template literal evaluates
\* code.replace(...), which throws on a null code
RunPythonLocal(s, inst) ==
    IF CodeArg(s.call) = "null"
    THEN SendCatch(s)
    ELSE [s EXCEPT !.pc = "exec", !.tgt = inst]

\* handleSend after a runPython call returned with the given backend flag;
\* short: the result is a non-empty text under 500 characters
AfterRunPython(s, backend, short) ==
    IF s.call = 1
    THEN IF backend
         THEN SendFinal([s EXCEPT !.backend = TRUE])
         ELSE [s EXCEPT !.backend = FALSE, !.notice = TRUE, !.requested = TRUE,
                        !.pc = "ollamaCode"]
    ELSE IF ~s.backend /\ short
         THEN [s EXCEPT !.pc = "summary"]
         ELSE SendFinal(s)

\* handleSend resumed at its await; out is the awaited outcome
HandleSendResume(p, out) ==
    /\ sends[p].pc # "done"
    /\ LET s  == sends[p]
           pc == s.pc
           ok == out # "fail"
           r  == IF pc = "fetch" /\ ~ok THEN InitPyodideCall(Globals)
                 ELSE IF pc \in PyPcs
                      THEN InitPyodideResume(Globals, pc, s.tgt, ok)
                      ELSE [st |-> "none", ret |-> 0, pc |-> "done", tgt |-> 0, g |-> Globals]
           s1 == IF pc = "fetch" /\ ~ok /\ s.call = 1
                 THEN [s EXCEPT !.backendDown = TRUE] ELSE s
           s2 == CASE pc = "fetch" /\ ok -> AfterRunPython(s1, TRUE, out = "ok")
                   [] r.st = "pending" -> [s1 EXCEPT !.pc = r.pc, !.tgt = r.tgt]
                   [] r.st = "resolved" -> RunPythonLocal(s1, r.ret)
                   [] r.st = "rejected" -> SendCatch([s1 EXCEPT !.extFail = TRUE])
                   [] pc = "exec" ->
                        IF ok THEN AfterRunPython([s1 EXCEPT !.executed = TRUE], FALSE, out = "ok")
                        ELSE SendCatch([s1 EXCEPT !.extFail = TRUE])
                   [] pc = "ollamaCode" ->
                        IF ok THEN [s1 EXCEPT !.call = 2, !.pc = "fetch"]
                        ELSE SendCatch([s1 EXCEPT !.extFail = TRUE])
                   [] OTHER ->
                        IF ok THEN SendFinal(s1)
                        ELSE SendCatch([s1 EXCEPT !.extFail = TRUE])
       IN  /\ SetGlobals(r.g)
           /\ resolvedTo' = IF r.st = "resolved" THEN resolvedTo \cup {r.ret} ELSE resolvedTo
           /\ sends' = [sends EXCEPT ![p] = s2]
           /\ messages' =
                LET m1 == IF s2.notice /\ ~s.notice
                          THEN Append(messages, "notice") ELSE messages
                IN  IF s2.pc = "done" THEN Append(m1, s2.final) ELSE m1
           /\ isLoading' = IF s2.pc = "done" THEN FALSE ELSE isLoading
    /\ UNCHANGED <<showChat, isConnected, selectedModel, input, inits>>
    /\ UNCHANGED <<dataVars, appVars, viewVars>>

Outcomes == {"ok", "long", "fail"}

(***************************************************************************)
(* Dates.  A Date is its local time value in ticks: TicksPerDay ticks make *)
(* a calendar day and day 0 is 2023-01-01 (a Sunday).  InvalidDate is the  *)
(* Date whose time value is NaN.                                           *)
(***************************************************************************)
InvalidDate == -1

At(day, k) == day * TicksPerDay + k
DayOf(t) == t \div TicksPerDay

IsLeap(y) == (y % 4 = 0 /\ y % 100 # 0) \/ y % 400 = 0
DaysInYear(y) == IF IsLeap(y) THEN 366 ELSE 365
\* m is zero-indexed, as Date.prototype.getMonth
DaysInMonth(y, m) ==
    CASE m = 1 -> IF IsLeap(y) THEN 29 ELSE 28
      [] m \in {3, 5, 8, 10} -> 30
      [] OTHER -> 31

RECURSIVE CivilYear(_, _)
CivilYear(n, y) ==
    IF n < DaysInYear(y) THEN <<y, n>> ELSE CivilYear(n - DaysInYear(y), y + 1)

RECURSIVE CivilMonth(_, _, _)
CivilMonth(n, y, m) ==
    IF n < DaysInMonth(y, m) THEN <<m, n + 1>>
    ELSE CivilMonth(n - DaysInMonth(y, m), y, m + 1)

\* the local calendar fields of a valid Date
Civil(t) ==
    LET yd == CivilYear(DayOf(t), 2023)
        md == CivilMonth(yd[2], yd[1], 0)
    IN  [y |-> yd[1], m |-> md[1], d |-> md[2]]

\* Date.prototype.getFullYear and getMonth; NaN (here -1) on an invalid Date
GetFullYear(t) == IF t = InvalidDate THEN -1 ELSE Civil(t).y
GetMonth(t) == IF t = InvalidDate THEN -1 ELSE Civil(t).m

\* date-fns format(date, 'yyyy-MM-dd') of a valid Date: the text, as the
\* tuple of its three numbers (the text order is the tuple's lexical order)
FormatDay(t) == LET c == Civil(t) IN <<c.y, c.m + 1, c.d>>
\* date-fns format(date, 'yyyy-MM')
FormatMonth(t) == LET c == Civil(t) IN <<c.y, c.m + 1>>

(***************************************************************************)
(* categoryMapping.js and String.prototype.toLowerCase on the category     *)
(* texts of the model.                                                     *)
(***************************************************************************)
\* a faulty variant: the lookup ignores the letter case of the raw category
CATEGORY_MAPPING_AnyCase(c) ==
    CASE c \in {"grocery", "Grocery", "GROCERY", "snacks", "Snacks"} -> "Food"
      [] c \in {"housing", "Housing", "utility", "Utility"} -> "Housing and Utilities"
      [] c \in {"gym", "Gym"} -> "Fitness"
      [] OTHER -> ""

\* CATEGORY_MAPPING[c]; "" stands for undefined
CATEGORY_MAPPING(c) ==
    CASE c \in {"grocery", "Grocery", "snacks", "Snacks"} -> "Food"
      [] c \in {"housing", "Housing", "utility", "Utility"} -> "Housing and Utilities"
      [] c \in {"gym", "Gym"} -> "Fitness"
      [] OTHER -> ""

ToLowerCase(s) ==
    CASE s \in {"Housing", "HOUSING"} -> "housing"
      [] s = "Utility" -> "utility"
      [] s \in {"Grocery", "GROCERY"} -> "grocery"
      [] s = "Snacks" -> "snacks"
      [] s = "Gym" -> "gym"
      [] s = "Unknown" -> "unknown"
      [] s = "Food" -> "food"
      [] s = "Fitness" -> "fitness"
      [] s = "Housing and Utilities" -> "housing and utilities"
      [] OTHER -> s

(***************************************************************************)
(* dataProcessor.js: processExcelFile.  A raw row is a row of the sheet as *)
(* sheet_to_json gives it: Date is the Date its date cell parses to        *)
(* (InvalidDate when it does not parse), the other fields are the texts of *)
(* the cells under the headers `category`, `Category`, `Expense` and       *)
(* `expense`, "" when the row has no such cell.                            *)
(***************************************************************************)
\* a row with the headers Date, category and Expense
SheetRow(d, c, e) ==
    [Date |-> d, category |-> c, Category |-> "", Expense |-> e, expense |-> ""]

\* the numerals among the cell texts of the model
Numerals ==
    [t \in {"-5", "0", "1", "2", "3", "4", "5", "6", "7", "8", "9", "10", "11",
            "12", "13"} |->
        CASE t = "-5" -> -5 [] t = "0" -> 0 [] t = "1" -> 1 [] t = "2" -> 2
          [] t = "3" -> 3 [] t = "4" -> 4 [] t = "5" -> 5 [] t = "6" -> 6
          [] t = "7" -> 7 [] t = "8" -> 8 [] t = "9" -> 9 [] t = "10" -> 10
          [] t = "11" -> 11 [] t = "12" -> 12 [] OTHER -> 13]

\* the cell text of a number
Numeral(n) == CHOOSE t \in DOMAIN Numerals : Numerals[t] = n

\* parseFloat on the cell texts of the model: the number of the longest
\* numeric prefix ("2abc" gives 2); nan is TRUE for NaN, when there is none
ParseFloat(text) ==
    IF text \in DOMAIN Numerals THEN [nan |-> FALSE, val |-> Numerals[text]]
    ELSE IF text = "2abc" THEN [nan |-> FALSE, val |-> 2]
    ELSE [nan |-> TRUE, val |-> 0]

\* parseFloat(rawExpense) || 0, with rawExpense = row.Expense || row.expense || 0
ExpenseOf(row) ==
    LET rawExpense == IF row.Expense # "" THEN row.Expense
                      ELSE IF row.expense # "" THEN row.expense ELSE "0"
        number == ParseFloat(rawExpense)
    IN  IF number.nan THEN 0 ELSE number.val

NormalizeRow(row) ==
    LET rawCategory == IF row.category = "" THEN "Unknown" ELSE row.category
        mapped == CATEGORY_MAPPING(rawCategory)
    IN  [Date |-> row.Date,
         Expense |-> ExpenseOf(row),
         Category |-> rawCategory,
         NewCategory |-> IF mapped = "" THEN rawCategory ELSE mapped]

\* a faulty variant: the filter keeps the rows with amount zero as well
ProcessExcelFileKeepsZero(rows) ==
    SelectSeq([i \in 1..Len(rows) |-> NormalizeRow(rows[i])],
              LAMBDA r : r.Expense >= 0)

ProcessExcelFile(rows) ==
    SelectSeq([i \in 1..Len(rows) |-> NormalizeRow(rows[i])],
              LAMBDA r : r.Expense > 0)

(***************************************************************************)
(* dataProcessor.js: filterData.                                           *)
(***************************************************************************)
\* a faulty variant: the comparison without toLowerCase
RentKeepsCaseSensitive(row) == row.Category # "" /\ row.Category # "housing"

\* 1. Rent Logic
RentKeeps(row) == row.Category # "" /\ ToLowerCase(row.Category) # "housing"

\* a faulty variant: only the first housing record is removed (a splice at findIndex)
RentLogicFirstOnly(rows, includeRent) ==
    LET hits == {i \in 1..Len(rows) : ~RentKeeps(rows[i])}
    IN  IF includeRent \/ hits = {} THEN rows
        ELSE LET k == CHOOSE i \in hits : \A j \in hits : i <= j
             IN  SubSeq(rows, 1, k - 1) \o SubSeq(rows, k + 1, Len(rows))

RentLogic(rows, includeRent) ==
    IF ~includeRent THEN SelectSeq(rows, RentKeeps) ELSE rows

\* date-fns isWithinInterval(t, {start, end}): "keep", "drop" or "throw"
IsWithinInterval(ver, t, start, end) ==
    IF ver = 2
    THEN IF start = InvalidDate \/ end = InvalidDate \/ start > end THEN "throw"
         ELSE IF t # InvalidDate /\ t >= start /\ t <= end THEN "keep" ELSE "drop"
    ELSE IF start = InvalidDate \/ end = InvalidDate \/ t = InvalidDate THEN "drop"
         ELSE LET lo == IF start <= end THEN start ELSE end
                  hi == IF start <= end THEN end ELSE start
              IN  IF t >= lo /\ t <= hi THEN "keep" ELSE "drop"

\* 2. Date Filtering: the callback on one row
DateTest(ver, row, f) ==
    CASE f.type = "Year" ->
            IF GetFullYear(row.Date) = f.year THEN "keep" ELSE "drop"
      [] f.type = "Month" ->
            IF GetFullYear(row.Date) = f.year /\ GetMonth(row.Date) = f.month
            THEN "keep" ELSE "drop"
      [] f.type = "Day" ->
            IF row.Date = InvalidDate \/ f.date = InvalidDate THEN "throw"
            ELSE IF FormatDay(row.Date) = FormatDay(f.date) THEN "keep" ELSE "drop"
      [] f.type = "Custom Range" ->
            IsWithinInterval(ver, row.Date, f.startDate, f.endDate)
      [] OTHER -> "keep"

\* the result of a call: the rows returned, or threw when the call throws
Threw == [called |-> TRUE, threw |-> TRUE, rows |-> <<>>]
Returned(rows) == [called |-> TRUE, threw |-> FALSE, rows |-> rows]
NotCalled == [called |-> FALSE, threw |-> FALSE, rows |-> <<>>]

filterData(ver, rows, f) ==
    LET r1 == RentLogic(rows, f.includeRent)
    IN  IF \E i \in 1..Len(r1) : DateTest(ver, r1[i], f) = "throw"
        THEN Threw
        ELSE Returned(SelectSeq(r1, LAMBDA r : DateTest(ver, r, f) = "keep"))

(***************************************************************************)
(* The filter harness: a collection made by processExcelFile, one call of  *)
(* filterData on it and one more on its result.                            *)
(***************************************************************************)
RECURSIVE SeqsUpTo(_, _)
SeqsUpTo(S, n) ==
    IF n = 0 THEN {<<>>}
    ELSE LET shorter == SeqsUpTo(S, n - 1)
         IN  shorter \cup {Append(q, x) : q \in shorter, x \in S}

\* 2023-12-31 (two instants of it), 2024-01-01 and 2024-02-01
FilterDates == {At(364, 0), At(364, 1), At(365, 0), At(396, 0)}
\* the dates the filters are set to
FilterEnds == {At(364, 0), At(364, 1), At(365, 0)}

FilterRows ==
    {SheetRow(d, c, "1") : d \in FilterDates \cup {InvalidDate},
                           c \in {"", "housing", "Housing", "utility"}}

NoFilters == [type |-> "Year", year |-> 2025, month |-> 11, date |-> At(0, 0),
              startDate |-> At(0, 0), endDate |-> At(0, 0), includeRent |-> TRUE]

PeriodSpace ==
    {[NoFilters EXCEPT !.type = "Year", !.year = y] : y \in {2023, 2024}}
    \cup {[NoFilters EXCEPT !.type = "Month", !.year = y, !.month = m] :
             y \in {2023, 2024}, m \in {0, 1, 11}}
    \cup {[NoFilters EXCEPT !.type = "Day", !.date = d] : d \in {At(364, 1), At(365, 0)}}
    \cup {[NoFilters EXCEPT !.type = "Custom Range", !.startDate = s, !.endDate = e] :
             s \in FilterEnds, e \in FilterEnds}

FilterSpace == {[f EXCEPT !.includeRent = b] : f \in PeriodSpace, b \in BOOLEAN}

NoStats == [called |-> FALSE, threw |-> FALSE, text |-> "", groups |-> <<>>,
            args |-> [groupBy |-> "category", startDate |-> <<>>, endDate |-> <<>>]]
NoInsight ==
    [called |-> FALSE,
     topDay |-> [present |-> FALSE, date |-> <<>>, total |-> 0, items |-> <<>>],
     maxStreak |-> 0, maxStreakCategory |-> "", streakDays |-> <<>>,
     avgPerCategory |-> [present |-> FALSE, category |-> "", sum |-> 0, count |-> 1]]

ChatIdle ==
    /\ showChat = FALSE
    /\ isLoading = FALSE
    /\ isConnected = FALSE
    /\ selectedModel = ""
    /\ input = ""
    /\ messages = <<>>
    /\ inits = <<>>
    /\ sends = <<>>
    /\ pyodide = 0
    /\ ready = <<>>
    /\ loadCalls = 0
    /\ resolvedTo = {}

NoBounds == [min |-> <<>>, max |-> <<>>]

NotParsed == [called |-> FALSE, rejected |-> FALSE, rows |-> <<>>]

\* rawData of App.jsx: null, or the array of the last setRawData
NoRawData == [null |-> TRUE, rows |-> <<>>]

\* the mounted FileUploader: which mount it is and its isLoading
FirstUploader == [mount |-> 1, isLoading |-> FALSE]

LoadsIdle ==
    /\ rawData = NoRawData
    /\ uploader = FirstUploader
    /\ loads = <<>>
    /\ isDemo = FALSE
    /\ dateBounds = NoBounds

AppIdle ==
    /\ sheet = <<>>
    /\ parsed = NotParsed
    /\ LoadsIdle

NotRendered == [called |-> FALSE]

\* the hooks of a CalendarHeatmap that is not mounted
NoHooks == [mounted |-> FALSE, crashed |-> FALSE, count |-> 0]

\* compareYear null (0) and showCharts.yearComparison false
NoCompare == [year |-> 0, shown |-> FALSE]

MoreIdle ==
    /\ pyRuns = <<>>
    /\ series = NotRendered
    /\ split = NotRendered
    /\ hooks = NoHooks
    /\ compare = NoCompare

ViewIdle ==
    /\ trend = NotRendered
    /\ correlation = NotRendered
    /\ heatmap = NotRendered
    /\ metrics = NotRendered
    /\ metadata = NotRendered
    /\ MoreIdle

DataIdle ==
    /\ dateFns = 2
    /\ data = <<>>
    /\ filters = NoFilters
    /\ filtered = NotCalled
    /\ refiltered = NotCalled
    /\ stats = NoStats
    /\ insight = NoInsight

InitFilter ==
    /\ ChatIdle
    /\ AppIdle
    /\ ViewIdle
    /\ dateFns \in {2, 3}
    /\ data \in {ProcessExcelFile(rows) : rows \in SeqsUpTo(FilterRows, MaxRows)}
    /\ filters = NoFilters
    /\ filtered = NotCalled
    /\ refiltered = NotCalled
    /\ stats = NoStats
    /\ insight = NoInsight

\* filterData(data, f)
ApplyFilter(f) ==
    /\ ~filtered.called
    /\ filters' = f
    /\ filtered' = filterData(dateFns, data, f)
    /\ UNCHANGED <<dateFns, data, refiltered, stats, insight>>
    /\ UNCHANGED <<chatVars, appVars, viewVars>>

\* filterData(filterData(data, f), f): a throw of the inner call propagates
ApplyFilterAgain ==
    /\ filtered.called /\ ~refiltered.called
    /\ refiltered' = IF filtered.threw THEN Threw
                     ELSE filterData(dateFns, filtered.rows, filters)
    /\ UNCHANGED <<dateFns, data, filters, filtered, stats, insight>>
    /\ UNCHANGED <<chatVars, appVars, viewVars>>

NextFilter ==
    \/ \E f \in FilterSpace : ApplyFilter(f)
    \/ ApplyFilterAgain

SpecFilter == InitFilter /\ [][NextFilter]_vars

(***************************************************************************)
(* analysisTools.js: filterByDateRange and getAggregatedStats.  An absent  *)
(* startDate or endDate is <<>>, a given one is <<t>> with t the Date it   *)
(* parses to.                                                              *)
(***************************************************************************)
\* new Date(0): no Date of the model is before tick 0
Epoch == At(0, 0)

filterByDateRange(ver, rows, startDate, endDate, now) ==
    IF startDate = <<>> /\ endDate = <<>> THEN Returned(rows)
    ELSE LET start == IF startDate # <<>> THEN startDate[1] ELSE Epoch
             end == IF endDate # <<>> THEN endDate[1] ELSE now
         IN  IF \E i \in 1..Len(rows) :
                    IsWithinInterval(ver, rows[i].Date, start, end) = "throw"
             THEN Threw
             ELSE Returned(SelectSeq(rows, LAMBDA d :
                               IsWithinInterval(ver, d.Date, start, end) = "keep"))

\* date-fns startOfWeek(t) with the default weekStartsOn: 0 (Sunday)
StartOfWeek(t) ==
    IF t = InvalidDate THEN InvalidDate ELSE At(DayOf(t) - (DayOf(t) % 7), 0)

\* the iteratee of _.groupBy for each groupBy argument
GroupKey(groupBy, d) ==
    CASE groupBy = "month" -> FormatMonth(d.Date)
      [] groupBy = "year" -> GetFullYear(d.Date)
      [] groupBy = "day" -> FormatDay(d.Date)
      [] groupBy = "week" -> FormatDay(StartOfWeek(d.Date))
      [] OTHER -> d.NewCategory

\* date-fns format throws RangeError on an invalid Date
GroupKeyThrows(groupBy, d) ==
    groupBy \in {"month", "day", "week"} /\ d.Date = InvalidDate

\* the keys of the object _.groupBy builds, in the order of first insertion
RECURSIVE InsertionKeys(_, _)
InsertionKeys(groupBy, rows) ==
    IF rows = <<>> THEN <<>>
    ELSE LET n == Len(rows)
             before == InsertionKeys(groupBy, SubSeq(rows, 1, n - 1))
             k == GroupKey(groupBy, rows[n])
         IN  IF \E i \in 1..Len(before) : before[i] = k THEN before
             ELSE Append(before, k)

\* ascending order of a sequence of integers
RECURSIVE Ascending(_)
Ascending(ks) ==
    IF ks = <<>> THEN <<>>
    ELSE LET lo == CHOOSE i \in 1..Len(ks) : \A j \in 1..Len(ks) : ks[i] <= ks[j]
         IN  <<ks[lo]>> \o Ascending(SubSeq(ks, 1, lo - 1) \o SubSeq(ks, lo + 1, Len(ks)))

\* Object.entries order: integer keys ascending first (the years), then the
\* other keys in insertion order ('NaN', the year of an invalid Date, is one)
EntryKeys(groupBy, rows) ==
    LET ks == InsertionKeys(groupBy, rows)
    IN  IF groupBy = "year"
        THEN Ascending(SelectSeq(ks, LAMBDA k : k # -1))
                 \o SelectSeq(ks, LAMBDA k : k = -1)
        ELSE ks

RECURSIVE SumBy(_)
SumBy(items) ==
    IF items = <<>> THEN 0 ELSE items[1].Expense + SumBy(Tail(items))

\* _.orderBy(result, ['total'], ['desc']): a stable sort
RECURSIVE OrderByTotalDesc(_)
OrderByTotalDesc(result) ==
    IF result = <<>> THEN <<>>
    ELSE LET n == Len(result)
             sorted == OrderByTotalDesc(SubSeq(result, 1, n - 1))
             x == result[n]
             ahead == Cardinality({i \in 1..Len(sorted) : sorted[i].total >= x.total})
         IN  SubSeq(sorted, 1, ahead) \o <<x>> \o SubSeq(sorted, ahead + 1, Len(sorted))

StatsText(t) == [called |-> TRUE, threw |-> FALSE, text |-> t, groups |-> <<>>]
StatsThrew == [called |-> TRUE, threw |-> TRUE, text |-> "", groups |-> <<>>]

getAggregatedStats(ver, rows, groupBy, startDate, endDate, now) ==
    IF rows = <<>> THEN StatsText("No data available.")
    ELSE LET ranged == filterByDateRange(ver, rows, startDate, endDate, now)
         IN  IF ranged.threw THEN StatsThrew
             ELSE IF ranged.rows = <<>>
             THEN StatsText("No data found for the specified date range.")
             ELSE IF \E i \in 1..Len(ranged.rows) : GroupKeyThrows(groupBy, ranged.rows[i])
             THEN StatsThrew
             ELSE LET keys == EntryKeys(groupBy, ranged.rows)
                      result == [i \in 1..Len(keys) |->
                          LET items == SelectSeq(ranged.rows,
                                  LAMBDA d : GroupKey(groupBy, d) = keys[i])
                          IN  [key |-> keys[i], total |-> SumBy(items), count |-> Len(items)]]
                  IN  [called |-> TRUE, threw |-> FALSE, text |-> "",
                       groups |-> OrderByTotalDesc(result)]

(***************************************************************************)
(* The aggregation harness: a collection made by processExcelFile and one  *)
(* call of getAggregatedStats on it.                                       *)
(***************************************************************************)
\* 2023-12-30 (a Saturday), 2023-12-31 (two instants), 2024-01-01
StatsDates == {At(363, 0), At(364, 0), At(364, 1), At(365, 0)}

StatsRows ==
    {SheetRow(d, c, e) : d \in StatsDates \cup {InvalidDate},
                         c \in {"grocery", "gym"}, e \in {"1", "2"}}

GroupBys == {"category", "day", "week", "month", "year"}
StatsStarts == {<<>>, <<At(364, 0)>>, <<At(365, 0)>>}
StatsEnds == {<<>>, <<At(364, 0)>>}
\* the instants new Date() returns during a call
Nows == {At(364, 1), At(396, 0)}

InitStats ==
    /\ ChatIdle
    /\ AppIdle
    /\ ViewIdle
    /\ dateFns \in {2, 3}
    /\ data \in {ProcessExcelFile(rows) : rows \in SeqsUpTo(StatsRows, MaxRows)}
    /\ filters = NoFilters
    /\ filtered = NotCalled
    /\ refiltered = NotCalled
    /\ stats = NoStats
    /\ insight = NoInsight

\* getAggregatedStats(data, { groupBy, startDate, endDate })
GetStats(groupBy, startDate, endDate, now) ==
    /\ ~stats.called
    /\ stats' = [args |-> [groupBy |-> groupBy, startDate |-> startDate,
                           endDate |-> endDate]]
                 @@ getAggregatedStats(dateFns, data, groupBy, startDate, endDate, now)
    /\ UNCHANGED <<dateFns, data, filters, filtered, refiltered, insight>>
    /\ UNCHANGED <<chatVars, appVars, viewVars>>

NextStats ==
    \E g \in GroupBys, s \in StatsStarts, e \in StatsEnds, now \in Nows :
        GetStats(g, s, e, now)

SpecStats == InitStats /\ [][NextStats]_vars

(***************************************************************************)
(* InsightCards.jsx: the body of the component, run on each render with    *)
(* data = filteredData.  A date key is the tuple FormatDay gives; null is  *)
(* the text Null, which is no category of the model.                       *)
(***************************************************************************)
Null == "null"

\* the first entry of entries.sort((a, b) => b.total - a.total): the sort is
\* stable, so it is the earliest entry whose total is the largest
TopEntry(entries) ==
    LET k == CHOOSE i \in 1..Len(entries) :
                 /\ \A j \in 1..Len(entries) : entries[i].total >= entries[j].total
                 /\ \A j \in 1..(i - 1) : entries[j].total < entries[i].total
    IN  entries[k]

\* a faulty variant: the first row of a day opens its entry and is not pushed
DailyDataAddLosesFirst(entries, row) ==
    LET dateKey == FormatDay(row.Date)
    IN  IF \E i \in 1..Len(entries) : entries[i].date = dateKey
        THEN [i \in 1..Len(entries) |->
                 IF entries[i].date = dateKey
                 THEN [entries[i] EXCEPT !.total = @ + row.Expense,
                                         !.items = Append(@, row)]
                 ELSE entries[i]]
        ELSE Append(entries, [date |-> dateKey, total |-> row.Expense, items |-> <<>>])

\* one turn of data.forEach over dailyData, kept as its entries in key order
DailyDataAdd(entries, row) ==
    LET dateKey == FormatDay(row.Date)
        opened == IF \E i \in 1..Len(entries) : entries[i].date = dateKey
                  THEN entries
                  ELSE Append(entries, [date |-> dateKey, total |-> 0, items |-> <<>>])
    IN  [i \in 1..Len(opened) |->
            IF opened[i].date = dateKey
            THEN [opened[i] EXCEPT !.total = @ + row.Expense, !.items = Append(@, row)]
            ELSE opened[i]]

RECURSIVE DailyData(_)
DailyData(rows) ==
    IF rows = <<>> THEN <<>>
    ELSE DailyDataAdd(DailyData(SubSeq(rows, 1, Len(rows) - 1)), rows[Len(rows)])

\* topDay; present is FALSE for null
TopDay(rows) ==
    IF rows = <<>>
    THEN [present |-> FALSE, date |-> <<>>, total |-> 0, items |-> <<>>]
    ELSE [present |-> TRUE] @@ TopEntry(DailyData(rows))

\* [...data].sort((a, b) => a.Date - b.Date): a stable sort
RECURSIVE SortedData(_)
SortedData(rows) ==
    IF rows = <<>> THEN <<>>
    ELSE LET n == Len(rows)
             sorted == SortedData(SubSeq(rows, 1, n - 1))
             ahead == Cardinality({i \in 1..Len(sorted) : sorted[i].Date <= rows[n].Date})
         IN  SubSeq(sorted, 1, ahead) \o <<rows[n]>> \o SubSeq(sorted, ahead + 1, Len(sorted))

\* one turn of sortedData.forEach over dailyTopCategory[dateKey]
CategoryAdd(entries, row) ==
    IF \E i \in 1..Len(entries) : entries[i].key = row.NewCategory
    THEN [i \in 1..Len(entries) |->
             IF entries[i].key = row.NewCategory
             THEN [entries[i] EXCEPT !.total = @ + row.Expense]
             ELSE entries[i]]
    ELSE Append(entries, [key |-> row.NewCategory, total |-> row.Expense])

\* Object.entries(dailyTopCategory[dateKey]) after the forEach
RECURSIVE DailyTopCategory(_, _)
DailyTopCategory(sorted, dateKey) ==
    IF sorted = <<>> THEN <<>>
    ELSE LET n == Len(sorted)
             before == DailyTopCategory(SubSeq(sorted, 1, n - 1), dateKey)
         IN  IF FormatDay(sorted[n].Date) = dateKey THEN CategoryAdd(before, sorted[n])
             ELSE before

\* the order of the 'yyyy-MM-dd' texts
DateKeyBefore(a, b) ==
    \/ a[1] < b[1]
    \/ a[1] = b[1] /\ a[2] < b[2]
    \/ a[1] = b[1] /\ a[2] = b[2] /\ a[3] < b[3]

\* Object.keys(dailyTopCategory).sort()
RECURSIVE SortKeys(_)
SortKeys(keys) ==
    IF keys = {} THEN <<>>
    ELSE LET first == CHOOSE k \in keys : \A o \in keys \ {k} : DateKeyBefore(k, o)
         IN  <<first>> \o SortKeys(keys \ {first})

DateKeys(sorted) == SortKeys({FormatDay(sorted[i].Date) : i \in 1..Len(sorted)})

TopCat(sorted, date) == TopEntry(DailyTopCategory(sorted, date)).key

StreakStart ==
    [currentStreak |-> 0, maxStreak |-> 0, maxStreakCategory |-> "",
     streakDays |-> <<>>, tempStreakDays |-> <<>>, lastCategory |-> Null]

\* a faulty variant: the day list of the run is not started afresh
StreakStepKeepsDays(st, date, topCat) ==
    IF topCat = st.lastCategory
    THEN [st EXCEPT !.currentStreak = @ + 1, !.tempStreakDays = Append(@, date)]
    ELSE LET kept == IF st.currentStreak > st.maxStreak
                     THEN [st EXCEPT !.maxStreak = st.currentStreak,
                                     !.maxStreakCategory = st.lastCategory,
                                     !.streakDays = st.tempStreakDays]
                     ELSE st
         IN  [kept EXCEPT !.currentStreak = 1, !.lastCategory = topCat,
                          !.tempStreakDays = Append(@, date)]

\* the callback of Object.keys(dailyTopCategory).sort().forEach
StreakStep(st, date, topCat) ==
    IF topCat = st.lastCategory
    THEN [st EXCEPT !.currentStreak = @ + 1, !.tempStreakDays = Append(@, date)]
    ELSE LET kept == IF st.currentStreak > st.maxStreak
                     THEN [st EXCEPT !.maxStreak = st.currentStreak,
                                     !.maxStreakCategory = st.lastCategory,
                                     !.streakDays = st.tempStreakDays]
                     ELSE st
         IN  [kept EXCEPT !.currentStreak = 1, !.lastCategory = topCat,
                          !.tempStreakDays = <<date>>]

RECURSIVE StreakLoop(_, _)
StreakLoop(sorted, keys) ==
    IF keys = <<>> THEN StreakStart
    ELSE LET n == Len(keys)
         IN  StreakStep(StreakLoop(sorted, SubSeq(keys, 1, n - 1)),
                        keys[n], TopCat(sorted, keys[n]))

\* a faulty variant: the last streak also replaces a recorded one of equal length
FinalCheckAtLeast(st) ==
    IF st.currentStreak >= st.maxStreak
    THEN [st EXCEPT !.maxStreak = st.currentStreak,
                    !.maxStreakCategory = st.lastCategory,
                    !.streakDays = st.tempStreakDays]
    ELSE st

\* Final check for the last streak
FinalCheck(st) ==
    IF st.currentStreak > st.maxStreak
    THEN [st EXCEPT !.maxStreak = st.currentStreak,
                    !.maxStreakCategory = st.lastCategory,
                    !.streakDays = st.tempStreakDays]
    ELSE st

\* one turn of data.forEach over categoryTotals and categoryCounts
AverageAdd(entries, row) ==
    IF \E i \in 1..Len(entries) : entries[i].category = row.NewCategory
    THEN [i \in 1..Len(entries) |->
             IF entries[i].category = row.NewCategory
             THEN [entries[i] EXCEPT !.sum = @ + row.Expense, !.count = @ + 1]
             ELSE entries[i]]
    ELSE Append(entries, [category |-> row.NewCategory, sum |-> row.Expense, count |-> 1])

RECURSIVE CategoryAverages(_)
CategoryAverages(rows) ==
    IF rows = <<>> THEN <<>>
    ELSE AverageAdd(CategoryAverages(SubSeq(rows, 1, Len(rows) - 1)), rows[Len(rows)])

\* avgPerCategory: the first entry of the stable sort by avg = sum / count,
\* descending; present is FALSE for undefined
AvgPerCategory(rows) ==
    LET es == CategoryAverages(rows)
    IN  IF es = <<>> THEN [present |-> FALSE, category |-> "", sum |-> 0, count |-> 1]
        ELSE LET k == CHOOSE i \in 1..Len(es) :
                     /\ \A j \in 1..Len(es) :
                            es[i].sum * es[j].count >= es[j].sum * es[i].count
                     /\ \A j \in 1..(i - 1) :
                            es[j].sum * es[i].count < es[i].sum * es[j].count
             IN  [present |-> TRUE] @@ es[k]

InsightCards(rows) ==
    LET sorted == SortedData(rows)
        st == FinalCheck(StreakLoop(sorted, DateKeys(sorted)))
    IN  [called |-> TRUE,
         topDay |-> TopDay(rows),
         maxStreak |-> st.maxStreak,
         maxStreakCategory |-> st.maxStreakCategory,
         streakDays |-> st.streakDays,
         avgPerCategory |-> AvgPerCategory(rows)]

(***************************************************************************)
(* The insight harness: a collection made by processExcelFile, filtered as *)
(* App.jsx does, and one render of InsightCards on the filtered data.      *)
(***************************************************************************)
\* 2024-01-30, 2024-01-31, 2024-02-01 and 2024-02-02
InsightDates == {At(394, 0), At(395, 0), At(396, 0), At(397, 0)}

InsightRows ==
    {SheetRow(d, c, e) : d \in InsightDates, c \in {"grocery", "gym"}, e \in {"1", "2"}}

InsightFilters == [NoFilters EXCEPT !.year = 2024]

InitInsight ==
    /\ ChatIdle
    /\ AppIdle
    /\ ViewIdle
    /\ dateFns = 2
    /\ data \in {ProcessExcelFile(rows) : rows \in SeqsUpTo(InsightRows, MaxRecords)}
    /\ filters = InsightFilters
    /\ filtered = filterData(dateFns, data, filters)
    /\ refiltered = NotCalled
    /\ stats = NoStats
    /\ insight = NoInsight

\* <InsightCards data={filteredData} />
RenderInsightCards ==
    /\ ~insight.called
    /\ ~filtered.threw
    /\ insight' = InsightCards(filtered.rows)
    /\ UNCHANGED <<dateFns, data, filters, filtered, refiltered, stats>>
    /\ UNCHANGED <<chatVars, appVars, viewVars>>

NextInsight == RenderInsightCards

SpecInsight == InitInsight /\ [][NextInsight]_vars




(***************************************************************************)
(* TrendLine.jsx: the body of the component, run on each render with       *)
(* data = filteredData.  A moving-average value is null or the quotient    *)
(* num / den, kept as its two terms.                                       *)
(***************************************************************************)
\* aggregated[dateStr]: the reduce over data
RECURSIVE Aggregated(_, _)
Aggregated(rows, dateStr) ==
    IF rows = <<>> THEN 0
    ELSE LET n == Len(rows)
             acc == Aggregated(SubSeq(rows, 1, n - 1), dateStr)
         IN  IF FormatDay(rows[n].Date) = dateStr THEN acc + rows[n].Expense ELSE acc

\* window.reduce((a, b) => a + b, 0)
RECURSIVE WindowSum(_)
WindowSum(window) ==
    IF window = <<>> THEN 0 ELSE WindowSum(SubSeq(window, 1, Len(window) - 1))
                                     + window[Len(window)]

\* a faulty variant: the window is arr.slice(idx - 8, idx + 1)
MovingAvgShortWindow(arr, idx) ==
    IF idx < 9 THEN [null |-> TRUE, num |-> 0, den |-> 1]
    ELSE [null |-> FALSE, num |-> WindowSum(SubSeq(arr, idx - 7, idx + 1)), den |-> 10]

\* the callback of values.map((val, idx, arr) => ...); idx counts from 0
MovingAvg(arr, idx) ==
    IF idx < 9 THEN [null |-> TRUE, num |-> 0, den |-> 1]
    ELSE [null |-> FALSE, num |-> WindowSum(SubSeq(arr, idx - 8, idx + 1)), den |-> 10]

TrendLine(rows) ==
    LET sortedDates == SortKeys({FormatDay(rows[i].Date) : i \in 1..Len(rows)})
        values == [i \in 1..Len(sortedDates) |-> Aggregated(rows, sortedDates[i])]
    IN  [called |-> TRUE,
         sortedDates |-> sortedDates,
         values |-> values,
         movingAvg |-> [i \in 1..Len(values) |-> MovingAvg(values, i - 1)]]

(***************************************************************************)
(* The trend harness: a sheet with one row on each of up to MaxTrendDays   *)
(* consecutive days from 2024-01-30, in either order, optionally with a    *)
(* second row on the first day; the collection processExcelFile makes of   *)
(* it, filtered as App.jsx does, and one render of TrendLine.              *)
(***************************************************************************)
TrendStart == 394

\* the row of the k-th day: a low amount, or one that rises with the day
TrendRow(k, rising) ==
    SheetRow(At(TrendStart + k - 1, 0), "grocery",
             IF rising THEN Numeral(k + 1) ELSE "1")

Reverse(seq) == [i \in 1..Len(seq) |-> seq[Len(seq) + 1 - i]]

TrendSheets(maxDays) ==
    UNION {{LET days == [k \in 1..n |-> TrendRow(k, k \in up)]
                ordered == IF backwards THEN Reverse(days) ELSE days
            IN  IF twice /\ n > 0 THEN Append(ordered, TrendRow(1, FALSE)) ELSE ordered :
                up \in SUBSET (1..n), backwards \in BOOLEAN, twice \in BOOLEAN} :
           n \in 0..maxDays}

InitTrend ==
    /\ ChatIdle
    /\ ViewIdle
    /\ parsed = NotParsed /\ LoadsIdle
    /\ dateFns = 2
    /\ sheet \in TrendSheets(MaxTrendDays)
    /\ data = ProcessExcelFile(sheet)
    /\ filters = InsightFilters
    /\ filtered = filterData(dateFns, data, filters)
    /\ refiltered = NotCalled
    /\ stats = NoStats
    /\ insight = NoInsight

\* <TrendLine data={filteredData} />
RenderTrendLine ==
    /\ ~trend.called
    /\ ~filtered.threw
    /\ trend' = TrendLine(filtered.rows)
    /\ UNCHANGED <<correlation, heatmap, metrics, metadata, moreVars>>
    /\ UNCHANGED <<chatVars, dataVars, appVars>>

NextTrend == RenderTrendLine

SpecTrend == InitTrend /\ [][NextTrend]_vars

(***************************************************************************)
(* CalendarHeatmap.jsx: the pre-processing of the data and                 *)
(* calculateCorrelation.  The coefficient numerator / Math.sqrt(denomVal)  *)
(* is kept as its two terms.                                               *)
(***************************************************************************)
\* data.forEach(row => ...) over expenseMap, maxTotal and maxCount
RECURSIVE ExpenseMap(_)
ExpenseMap(rows) ==
    IF rows = <<>> THEN [entries |-> <<>>, maxTotal |-> 0, maxCount |-> 0]
    ELSE LET n == Len(rows)
             before == ExpenseMap(SubSeq(rows, 1, n - 1))
             entries == DailyDataAdd(before.entries, rows[n])
             e == CHOOSE x \in {entries[i] : i \in 1..Len(entries)} :
                      x.date = FormatDay(rows[n].Date)
         IN  [entries |-> entries,
              maxTotal |-> IF e.total > before.maxTotal THEN e.total ELSE before.maxTotal,
              maxCount |-> IF Len(e.items) > before.maxCount THEN Len(e.items)
                           ELSE before.maxCount]

\* x.reduce((a, b, i) => a + f(b, y[i]), 0) for the five sums
RECURSIVE SumProducts(_, _)
SumProducts(x, y) ==
    IF x = <<>> THEN 0
    ELSE SumProducts(SubSeq(x, 1, Len(x) - 1), SubSeq(y, 1, Len(y) - 1))
             + x[Len(x)] * y[Len(y)]

Ones(n) == [i \in 1..n |-> 1]

\* a faulty variant: the two terms are added
NumeratorAdded(n, sumXY, sumX, sumY) == (n * sumXY) + (sumX * sumY)

Numerator(n, sumXY, sumX, sumY) == (n * sumXY) - (sumX * sumY)

NoCoefficient == [null |-> TRUE, zero |-> FALSE, numerator |-> 0, denomVal |-> 0]

calculateCorrelation(expenseMap) ==
    LET entries == SelectSeq(expenseMap, LAMBDA e : Len(e.items) > 0)
    IN  IF Len(entries) < 2 THEN NoCoefficient
        ELSE LET n == Len(entries)
                 x == [i \in 1..n |-> Len(entries[i].items)]
                 y == [i \in 1..n |-> entries[i].total]
                 sumX == SumProducts(x, Ones(n))
                 sumY == SumProducts(y, Ones(n))
                 sumXY == SumProducts(x, y)
                 sumX2 == SumProducts(x, x)
                 sumY2 == SumProducts(y, y)
                 numerator == Numerator(n, sumXY, sumX, sumY)
                 denomVal == (n * sumX2 - sumX * sumX) * (n * sumY2 - sumY * sumY)
             IN  IF denomVal <= 0
                 THEN [null |-> FALSE, zero |-> TRUE, numerator |-> 0, denomVal |-> denomVal]
                 ELSE [null |-> FALSE, zero |-> FALSE, numerator |-> numerator,
                       denomVal |-> denomVal]

\* the component body; computed is FALSE when it returns 'No data available'
\* before the pre-processing
CalendarHeatmap(rows) ==
    IF rows = <<>>
    THEN [called |-> TRUE, computed |-> FALSE, maxTotal |-> 0, maxCount |-> 0,
          r |-> NoCoefficient]
    ELSE LET m == ExpenseMap(rows)
         IN  [called |-> TRUE, computed |-> TRUE, maxTotal |-> m.maxTotal,
              maxCount |-> m.maxCount, r |-> calculateCorrelation(m.entries)]

(***************************************************************************)
(* The heatmap harness: a collection made by processExcelFile, filtered as *)
(* App.jsx does, and one render of CalendarHeatmap on the filtered data.   *)
(***************************************************************************)
\* 2024-01-30, 2024-01-31 and 2024-02-01
HeatmapDates == {At(394, 0), At(395, 0), At(396, 0)}

HeatmapRows == {SheetRow(d, "grocery", e) : d \in HeatmapDates, e \in {"1", "5"}}

InitHeatmap ==
    /\ ChatIdle
    /\ ViewIdle
    /\ parsed = NotParsed /\ LoadsIdle
    /\ dateFns = 2
    /\ sheet \in SeqsUpTo(HeatmapRows, MaxRecords)
    /\ data = ProcessExcelFile(sheet)
    /\ filters = InsightFilters
    /\ filtered = filterData(dateFns, data, filters)
    /\ refiltered = NotCalled
    /\ stats = NoStats
    /\ insight = NoInsight

\* <CalendarHeatmap data={filteredData} />
RenderCalendarHeatmap ==
    /\ ~correlation.called
    /\ ~filtered.threw
    /\ correlation' = CalendarHeatmap(filtered.rows)
    /\ UNCHANGED <<trend, heatmap, metrics, metadata, moreVars>>
    /\ UNCHANGED <<chatVars, dataVars, appVars>>

NextHeatmap == RenderCalendarHeatmap

SpecHeatmap == InitHeatmap /\ [][NextHeatmap]_vars

(***************************************************************************)
(* ExpenseHeatmap.jsx: the body of the component.  The quantile is the     *)
(* fraction num / den; for the fractions and lengths of the model the      *)
(* double product expenses.length * quantile has the floor of the exact    *)
(* product.  A threshold is a number, or -Infinity (negInf) for Math.max   *)
(* of no argument.                                                         *)
(***************************************************************************)
\* data.map(d => d.Expense).sort((a, b) => a - b): position k of the sorted
\* array holds the amount of the row that k - 1 rows precede in the stable
\* ascending order
SortedExpenses(rows) ==
    LET Precedes(i, j) ==
            \/ rows[i].Expense < rows[j].Expense
            \/ rows[i].Expense = rows[j].Expense /\ i < j
        rank == [j \in 1..Len(rows) |->
                    Cardinality({i \in 1..Len(rows) : Precedes(i, j)}) + 1]
    IN  [k \in 1..Len(rows) |->
            rows[CHOOSE j \in 1..Len(rows) : rank[j] = k].Expense]

\* a faulty variant: the index is rounded up
ThresholdIndexCeil(n, quantile) == (n * quantile.num + quantile.den - 1) \div quantile.den

\* Math.floor(expenses.length * quantile), counted from 0
ThresholdIndex(n, quantile) == (n * quantile.num) \div quantile.den

\* expenses[thresholdIndex] || Math.max(...expenses)
Threshold(expenses, thresholdIndex) ==
    IF thresholdIndex < Len(expenses) /\ expenses[thresholdIndex + 1] # 0
    THEN [negInf |-> FALSE, val |-> expenses[thresholdIndex + 1]]
    ELSE IF expenses = <<>> THEN [negInf |-> TRUE, val |-> 0]
    ELSE [negInf |-> FALSE, val |-> expenses[Len(expenses)]]

Weekdays ==
    <<"Monday", "Tuesday", "Wednesday", "Thursday", "Friday", "Saturday", "Sunday">>

\* format(row.Date, 'EEEE'): day 0 of the model is a Sunday
FormatWeekday(t) == Weekdays[((DayOf(t) + 6) % 7) + 1]

\* format(row.Date, 'MM/dd')
FormatMonthDay(t) == LET c == Civil(t) IN <<c.m + 1, c.d>>

\* Object.keys(dateMap): the date keys in the order of first insertion
DateMapKeys(rows) ==
    LET firsts == {i \in 1..Len(rows) :
                      \A j \in 1..(i - 1) :
                          FormatMonthDay(rows[j].Date) # FormatMonthDay(rows[i].Date)}
    IN  [k \in 1..Cardinality(firsts) |->
            FormatMonthDay(rows[CHOOSE i \in firsts :
                                    Cardinality({j \in firsts : j < i}) = k - 1].Date)]

\* dateMap[dateKey]: the Date of the first row with the key
DateMap(rows, dateKey) ==
    LET first == CHOOSE i \in 1..Len(rows) :
                     /\ FormatMonthDay(rows[i].Date) = dateKey
                     /\ \A j \in 1..(i - 1) : FormatMonthDay(rows[j].Date) # dateKey
    IN  rows[first].Date

\* Object.keys(dateMap).sort((a, b) => dateMap[a] - dateMap[b]): a stable sort
RECURSIVE AllDates(_, _)
AllDates(rows, keys) ==
    IF keys = <<>> THEN <<>>
    ELSE LET n == Len(keys)
             sorted == AllDates(rows, SubSeq(keys, 1, n - 1))
             ahead == Cardinality({i \in 1..Len(sorted) :
                          DateMap(rows, sorted[i]) <= DateMap(rows, keys[n])})
         IN  SubSeq(sorted, 1, ahead) \o <<keys[n]>> \o SubSeq(sorted, ahead + 1, Len(sorted))

\* matrix[weekday]?.[dateKey] || 0
MatrixCell(rows, weekday, dateKey) ==
    SumBy(SelectSeq(rows, LAMBDA r : /\ FormatWeekday(r.Date) = weekday
                                     /\ FormatMonthDay(r.Date) = dateKey))

\* the component body; given is the data prop as the body leaves it
ExpenseHeatmap(rows, quantile) ==
    LET expenses == SortedExpenses(rows)
        thresholdIndex == ThresholdIndex(Len(expenses), quantile)
        threshold == Threshold(expenses, thresholdIndex)
        kept == SelectSeq(rows, LAMBDA d : ~threshold.negInf /\ d.Expense <= threshold.val)
        allDates == AllDates(kept, DateMapKeys(kept))
    IN  [called |-> TRUE,
         quantile |-> quantile,
         given |-> rows,
         thresholdIndex |-> thresholdIndex,
         threshold |-> threshold,
         filtered |-> kept,
         x |-> allDates,
         z |-> [w \in 1..7 |-> [j \in 1..Len(allDates) |->
                   MatrixCell(kept, Weekdays[w], allDates[j])]]]

(***************************************************************************)
(* The outlier harness: a collection made by processExcelFile and one      *)
(* render of ExpenseHeatmap on it, with the default quantile or another.   *)
(***************************************************************************)
\* 2023-12-31 and 2024-01-01
OutlierDates == {At(364, 0), At(365, 0)}

OutlierRows == {SheetRow(d, "grocery", e) : d \in OutlierDates, e \in {"1", "2", "3"}}

\* rows of amount 1, then one row each of the amounts 2, 3, 4 and 5
LongSheet(n) ==
    [i \in 1..n |-> SheetRow(At(365, 0), "grocery",
                             IF i <= n - 4 THEN "1" ELSE Numeral(i - n + 5))]

OutlierSheets(maxRows) ==
    SeqsUpTo(OutlierRows, maxRows)
        \cup {LongSheet(n) : n \in {25, 26, 100}}
        \cup {Reverse(LongSheet(n)) : n \in {25, 26, 100}}

\* the quantile prop: the default 0.96, 0.5 and 1
Quantiles == {[num |-> 96, den |-> 100], [num |-> 1, den |-> 2], [num |-> 1, den |-> 1]}

InitOutlier ==
    /\ ChatIdle
    /\ ViewIdle
    /\ parsed = NotParsed /\ LoadsIdle
    /\ dateFns = 2
    /\ sheet \in OutlierSheets(MaxRows)
    /\ data = ProcessExcelFile(sheet)
    /\ filters = NoFilters
    /\ filtered = NotCalled
    /\ refiltered = NotCalled
    /\ stats = NoStats
    /\ insight = NoInsight

\* <ExpenseHeatmap data={data} quantile={quantile} />
RenderExpenseHeatmap(quantile) ==
    /\ ~heatmap.called
    /\ heatmap' = ExpenseHeatmap(data, quantile)
    /\ data' = heatmap'.given
    /\ UNCHANGED <<dateFns, filters, filtered, refiltered, stats, insight>>
    /\ UNCHANGED <<trend, correlation, metrics, metadata, moreVars>>
    /\ UNCHANGED <<chatVars, appVars>>

NextOutlier == \E q \in Quantiles : RenderExpenseHeatmap(q)

SpecOutlier == InitOutlier /\ [][NextOutlier]_vars

(***************************************************************************)
(* The normaliser harness: the rows of a sheet and the promise of          *)
(* processExcelFile on them.  Nothing in the try block throws on the rows  *)
(* of the model, so the promise resolves with processedData.               *)
(***************************************************************************)
\* rows that vary the date and the amount cells, and rows that vary the
\* category cells
NormalizerRows ==
    {[Date |-> d, category |-> "grocery", Category |-> "", Expense |-> e, expense |-> x] :
        d \in {At(364, 0), InvalidDate}, e \in {"", "abc", "2abc", "0", "-5", "2"},
        x \in {"", "1"}}
    \cup {[Date |-> At(365, 0), category |-> c, Category |-> h, Expense |-> "2",
           expense |-> ""] :
             c \in {"", "grocery", "Grocery", "GROCERY", "rent"}, h \in {"", "gym"}}

InitNormalizer ==
    /\ ChatIdle
    /\ ViewIdle
    /\ DataIdle
    /\ sheet \in SeqsUpTo(NormalizerRows, MaxRows)
    /\ parsed = NotParsed
    /\ LoadsIdle

\* processExcelFile(file): reader.onload runs and calls resolve(processedData)
ReadFile ==
    /\ ~parsed.called
    /\ parsed' = [called |-> TRUE, rejected |-> FALSE, rows |-> ProcessExcelFile(sheet)]
    /\ UNCHANGED <<sheet, rawData, uploader, loads, isDemo, dateBounds>>
    /\ UNCHANGED <<chatVars, dataVars, viewVars>>

NextNormalizer == ReadFile

SpecNormalizer == InitNormalizer /\ [][NextNormalizer]_vars

(***************************************************************************)
(* App.jsx: loading a dataset.  handleFileUpload is asynchronous: it       *)
(* suspends at `await processExcelFile(file)` and resumes when the promise *)
(* settles; handleUseDemo is synchronous.  FileUploader (rendered while    *)
(* rawData is null) calls them from processFile and from the demo button.  *)
(***************************************************************************)
\* a faulty variant: the new records are appended to the ones held
SetRawDataMerged(prev, records) == [null |-> FALSE, rows |-> prev.rows \o records]

\* setRawData(data)
SetRawData(prev, records) == [null |-> FALSE, rows |-> records]

\* Math.min(...dates) and Math.max(...dates) over the getTime() of the
\* records; NaN (here InvalidDate) as soon as one of them is NaN
DateTimes(records) == {records[i].Date : i \in 1..Len(records)}

MinDate(records) ==
    LET dates == DateTimes(records)
    IN  IF InvalidDate \in dates THEN InvalidDate
        ELSE CHOOSE t \in dates : \A u \in dates : t <= u

MaxDate(records) ==
    LET dates == DateTimes(records)
    IN  IF InvalidDate \in dates THEN InvalidDate
        ELSE CHOOSE t \in dates : \A u \in dates : t >= u

\* Math.max(...years) over the getFullYear() of the records
MaxYear(records) ==
    LET years == {GetFullYear(records[i].Date) : i \in 1..Len(records)}
    IN  CHOOSE y \in years : \A z \in years : y >= z

\* { min: format(minDate, 'yyyy-MM-dd'), max: format(maxDate, 'yyyy-MM-dd') }
DateBoundsOf(records) ==
    [min |-> FormatDay(MinDate(records)), max |-> FormatDay(MaxDate(records))]

\* the clock while the app is used: 2024-02-01
AppNow == At(396, 1)

\* generateDummyData: numTransactions records at scattered instants of the
\* current year, amounts positive, Category and NewCategory the same broad
\* category; seed stands for the draws of Math.random
NumTransactions == 300

DemoCategories == <<"Food", "Housing and Utilities", "Fitness">>

GenerateDummyData(seed) ==
    [i \in 1..NumTransactions |->
        LET category == DemoCategories[((i * seed) % 3) + 1]
        IN  [Date |-> At(365 + ((i * (6 + seed)) % 365), (i + seed) % TicksPerDay),
             Expense |-> 1 + ((i * seed) % 3),
             Category |-> category,
             NewCategory |-> category]]

DemoSeeds == {1, 5}

\* the files dropped on the uploader: sheets of rows, and a file XLSX.read
\* throws on
AppRows ==
    {SheetRow(At(364, 0), "grocery", "2"), SheetRow(At(396, 0), "gym", "1"),
     SheetRow(InvalidDate, "grocery", "2")}

NoFile == [corrupt |-> FALSE, rows |-> <<>>]

AppSheets ==
    SeqsUpTo(AppRows, 1)
    \cup {<<SheetRow(At(396, 0), "gym", "1"), SheetRow(At(364, 0), "grocery", "2")>>}

AppFiles ==
    {[corrupt |-> TRUE, rows |-> <<>>]}
    \cup {[corrupt |-> FALSE, rows |-> rows] : rows \in AppSheets}

\* the date typed into the two inputs of the Custom Range
AppDates == {At(365, 0)}

InitApp ==
    /\ ChatIdle
    /\ ViewIdle
    /\ dateFns = 2
    /\ data = <<>>
    /\ filters = [NoFilters EXCEPT !.startDate = AppNow, !.endDate = AppNow]
    /\ filtered = NotCalled
    /\ refiltered = NotCalled
    /\ stats = NoStats
    /\ insight = NoInsight
    /\ AppIdle

\* FileUploader.processFile up to the await inside handleFileUpload:
\* setIsLoading(true), setIsDemo(false), processExcelFile(file) started
HandleFileUpload(file) ==
    /\ rawData.null
    /\ Len(loads) < MaxLoads
    /\ uploader' = [uploader EXCEPT !.isLoading = TRUE]
    /\ isDemo' = FALSE
    /\ loads' = Append(loads, [kind |-> "upload", pc |-> "await", file |-> file,
                               seed |-> 0, mount |-> uploader.mount])
    /\ UNCHANGED <<sheet, parsed, rawData, dateBounds>>
    /\ UNCHANGED <<chatVars, dataVars, viewVars>>

\* the finally of processFile: setIsLoading(false) on the uploader that
\* started the load, when it is still the mounted one
FinallyOf(load) ==
    IF load.mount = uploader.mount THEN [uploader EXCEPT !.isLoading = FALSE]
    ELSE uploader

\* the promise of processExcelFile rejects: handleFileUpload throws at the
\* await, processFile alerts
FileUploadRejected(i) ==
    /\ i \in 1..Len(loads)
    /\ loads[i].pc = "await"
    /\ loads[i].file.corrupt
    /\ loads' = [loads EXCEPT ![i].pc = "rejected"]
    /\ uploader' = FinallyOf(loads[i])
    /\ UNCHANGED <<sheet, parsed, rawData, isDemo, dateBounds>>
    /\ UNCHANGED <<chatVars, dataVars, viewVars>>

\* the promise resolves and handleFileUpload runs to its end: setRawData,
\* then for a non-empty dataset setDateBounds and setFilters; format throws
\* on an Invalid Date, after setRawData and before the other two
FileUploadResolved(i) ==
    /\ i \in 1..Len(loads)
    /\ loads[i].pc = "await"
    /\ ~loads[i].file.corrupt
    /\ LET records == ProcessExcelFile(loads[i].file.rows)
           threw == Len(records) > 0 /\ MinDate(records) = InvalidDate
       IN  /\ rawData' = SetRawData(rawData, records)
           /\ loads' = [loads EXCEPT ![i].pc = IF threw THEN "threw" ELSE "done"]
           /\ IF Len(records) > 0 /\ ~threw
              THEN /\ dateBounds' = DateBoundsOf(records)
                   /\ filters' = [filters EXCEPT !.year = MaxYear(records),
                                                 !.startDate = MinDate(records),
                                                 !.endDate = MaxDate(records)]
              ELSE UNCHANGED <<dateBounds, filters>>
    /\ uploader' = FinallyOf(loads[i])
    /\ UNCHANGED <<sheet, parsed, isDemo>>
    /\ UNCHANGED <<dateFns, data, filtered, refiltered, stats, insight>>
    /\ UNCHANGED <<chatVars, viewVars>>

\* handleUseDemo, from the button the uploader shows while it is not loading
HandleUseDemo(seed) ==
    /\ rawData.null
    /\ ~uploader.isLoading
    /\ Len(loads) < MaxLoads
    /\ LET records == GenerateDummyData(seed)
       IN  /\ isDemo' = TRUE
           /\ rawData' = SetRawData(rawData, records)
           /\ filters' = [filters EXCEPT !.year = GetFullYear(AppNow)]
           /\ dateBounds' = IF Len(records) > 0 THEN DateBoundsOf(records)
                            ELSE dateBounds
    /\ loads' = Append(loads, [kind |-> "demo", pc |-> "done", file |-> NoFile,
                               seed |-> seed, mount |-> uploader.mount])
    /\ UNCHANGED <<sheet, parsed, uploader>>
    /\ UNCHANGED <<dateFns, data, filtered, refiltered, stats, insight>>
    /\ UNCHANGED <<chatVars, viewVars>>

\* the button "Upload New File": setRawData(null); the uploader is mounted
\* anew
UploadNewFile ==
    /\ ~rawData.null
    /\ uploader.mount < MaxLoads
    /\ rawData' = NoRawData
    /\ uploader' = [mount |-> uploader.mount + 1, isLoading |-> FALSE]
    /\ UNCHANGED <<sheet, parsed, loads, isDemo, dateBounds>>
    /\ UNCHANGED <<chatVars, dataVars, viewVars>>

\* the start and end inputs of the Custom Range
SetStartDate(d) ==
    /\ ~rawData.null
    /\ filters' = [filters EXCEPT !.startDate = d]
    /\ UNCHANGED <<dateFns, data, filtered, refiltered, stats, insight>>
    /\ UNCHANGED <<chatVars, appVars, viewVars>>

SetEndDate(d) ==
    /\ ~rawData.null
    /\ filters' = [filters EXCEPT !.endDate = d]
    /\ UNCHANGED <<dateFns, data, filtered, refiltered, stats, insight>>
    /\ UNCHANGED <<chatVars, appVars, viewVars>>

NextApp ==
    \/ \E file \in AppFiles : HandleFileUpload(file)
    \/ \E i \in 1..MaxLoads : FileUploadRejected(i)
    \/ \E i \in 1..MaxLoads : FileUploadResolved(i)
    \/ \E seed \in DemoSeeds : HandleUseDemo(seed)
    \/ UploadNewFile
    \/ \E d \in AppDates : SetStartDate(d)
    \/ \E d \in AppDates : SetEndDate(d)

SpecApp == InitApp /\ [][NextApp]_vars

(***************************************************************************)
(* App.jsx: the year select, the period type buttons, the comparison       *)
(* toggle and the compare-year select; YearComparison.jsx: the two         *)
(* cumulative series the chart draws.  compare holds compareYear (0 for    *)
(* null, and for Number('') of the placeholder option) and                 *)
(* showCharts.yearComparison.                                              *)
(***************************************************************************)
\* getDayOfYear(date) of date-fns
GetDayOfYear(t) == CivilYear(DayOf(t), 2023)[2] + 1

\* a faulty variant: each point carries the amount of its record alone
YearSeriesPerRecord(rows, year) ==
    LET yearData == SortedData(SelectSeq(rows, LAMBDA d : GetFullYear(d.Date) = year))
    IN  [k \in 1..Len(yearData) |->
            [dayOfYear |-> GetDayOfYear(yearData[k].Date),
             cumulative |-> yearData[k].Expense,
             dateStr |-> <<GetMonth(yearData[k].Date), Civil(yearData[k].Date).d>>]]

\* data.filter(d => d.Date.getFullYear() === year).sort((a, b) => a.Date - b.Date)
\* and the map that accumulates the amounts
YearSeries(rows, year) ==
    LET yearData == SortedData(SelectSeq(rows, LAMBDA d : GetFullYear(d.Date) = year))
    IN  [k \in 1..Len(yearData) |->
            [dayOfYear |-> GetDayOfYear(yearData[k].Date),
             cumulative |-> SumBy(SubSeq(yearData, 1, k)),
             dateStr |-> <<GetMonth(yearData[k].Date), Civil(yearData[k].Date).d>>]]

\* [...new Set(rawData.map(d => d.Date.getFullYear()))]
AvailableYears == {GetFullYear(rawData.rows[i].Date) : i \in 1..Len(rawData.rows)}

\* the chart is part of what App renders
ComparisonRendered == ~rawData.null /\ compare.shown /\ compare.year # 0

\* the section "Compare Years" of the sidebar is rendered
CompareSectionShown ==
    ~rawData.null /\ Cardinality(AvailableYears) > 1 /\ filters.type = "Year"

\* the files of this harness: records of 2023 and 2024 out of order, two
\* of them on one day, and a record of 2024 alone
CompareFiles ==
    {[corrupt |-> FALSE, rows |-> rows] :
        rows \in {<<SheetRow(At(396, 0), "gym", "2"), SheetRow(At(364, 1), "grocery", "1"),
                    SheetRow(At(365, 0), "gym", "3"), SheetRow(At(364, 0), "gym", "2")>>,
                  <<SheetRow(At(396, 0), "gym", "1")>>}}

PeriodTypes == {"Year", "Month", "Custom Range"}

\* the buttons Year / Month / Custom Range
SetFilterType(type) ==
    /\ ~rawData.null
    /\ filters.type # type
    /\ filters' = [filters EXCEPT !.type = type]
    /\ UNCHANGED <<dateFns, data, filtered, refiltered, stats, insight>>
    /\ UNCHANGED <<chatVars, appVars, viewVars>>

\* the select "Select Year": an option of availableYears
SetYear(y) ==
    /\ ~rawData.null
    /\ filters.type \in {"Year", "Month"}
    /\ y \in AvailableYears
    /\ filters.year # y
    /\ filters' = [filters EXCEPT !.year = y]
    /\ UNCHANGED <<dateFns, data, filtered, refiltered, stats, insight>>
    /\ UNCHANGED <<chatVars, appVars, viewVars>>

\* the switch "Enable Comparison"
ToggleYearComparison ==
    /\ CompareSectionShown
    /\ compare' = [compare EXCEPT !.shown = ~compare.shown]
    /\ UNCHANGED <<pyRuns, series, split, hooks>>
    /\ UNCHANGED <<trend, correlation, heatmap, metrics, metadata>>
    /\ UNCHANGED <<chatVars, dataVars, appVars>>

\* the select "Compare with": the placeholder, or an available year other
\* than the filter year
SetCompareYear(y) ==
    /\ CompareSectionShown
    /\ compare.shown
    /\ y = 0 \/ (y \in AvailableYears /\ y # filters.year)
    /\ compare.year # y
    /\ compare' = [compare EXCEPT !.year = y]
    /\ UNCHANGED <<pyRuns, series, split, hooks>>
    /\ UNCHANGED <<trend, correlation, heatmap, metrics, metadata>>
    /\ UNCHANGED <<chatVars, dataVars, appVars>>

\* <YearComparison data={rawData} year1={filters.year} year2={compareYear} />
RenderYearComparison ==
    /\ ComparisonRendered
    /\ series' = [called |-> TRUE, data |-> rawData.rows, year1 |-> filters.year,
                  year2 |-> compare.year,
                  year1Cumulative |-> YearSeries(rawData.rows, filters.year),
                  year2Cumulative |-> YearSeries(rawData.rows, compare.year)]
    /\ series' # series
    /\ UNCHANGED <<pyRuns, split, hooks, compare>>
    /\ UNCHANGED <<trend, correlation, heatmap, metrics, metadata>>
    /\ UNCHANGED <<chatVars, dataVars, appVars>>

NextCompare ==
    \/ \E file \in CompareFiles : HandleFileUpload(file)
    \/ \E i \in 1..MaxLoads : FileUploadResolved(i)
    \/ UploadNewFile
    \/ \E type \in PeriodTypes : SetFilterType(type)
    \/ \E y \in 2023..2024 : SetYear(y)
    \/ ToggleYearComparison
    \/ \E y \in {0, 2023, 2024} : SetCompareYear(y)
    \/ RenderYearComparison

SpecCompare == InitApp /\ [][NextCompare]_vars

(***************************************************************************)
(* CalendarHeatmap.jsx under App.jsx: the hooks one render of the          *)
(* component calls.  React re-renders App after every state change; the    *)
(* heatmap is mounted while the dashboard is (rawData not null,            *)
(* showCharts.heatmap left at its initial true) and is given filteredData. *)
(* React throws when a mounted component calls fewer or more hooks than in *)
(* its previous render, and without an error boundary unmounts the tree.   *)
(***************************************************************************)
\* the hooks a render of CalendarHeatmap calls, in order: five before the
\* early return on empty data, useMemo(months) after it
HooksOf(rows) ==
    <<"useState", "useState", "useState", "useMemo", "useState", "useEffect">>
        \o (IF Len(rows) = 0 THEN <<>> ELSE <<"useMemo">>)

\* const filteredData = useMemo(() => filterData(rawData, filters))
FilteredData == filterData(dateFns, rawData.rows, filters).rows

\* what the last render left: hooks describes the render of this state
Rendered ==
    \/ hooks.crashed
    \/ rawData.null /\ ~hooks.mounted
    \/ ~rawData.null /\ hooks.mounted /\ hooks.count = Len(HooksOf(FilteredData))

\* the render that follows a state change
RenderCalendarHeatmapHooks ==
    /\ ~Rendered
    /\ hooks' = IF rawData.null THEN NoHooks
                ELSE IF ~hooks.mounted
                     THEN [mounted |-> TRUE, crashed |-> FALSE,
                           count |-> Len(HooksOf(FilteredData))]
                     ELSE [hooks EXCEPT !.crashed = TRUE]
    /\ UNCHANGED <<pyRuns, series, split, compare>>
    /\ UNCHANGED <<trend, correlation, heatmap, metrics, metadata>>
    /\ UNCHANGED <<chatVars, dataVars, appVars>>

\* the last render stands and shows the app: the user can act on it
Shown == Rendered /\ ~hooks.crashed

NextDashboard ==
    \/ Shown /\ \E file \in CompareFiles : HandleFileUpload(file)
    \/ Shown /\ \E i \in 1..MaxLoads : FileUploadResolved(i)
    \/ Shown /\ UploadNewFile
    \/ Shown /\ \E type \in PeriodTypes : SetFilterType(type)
    \/ Shown /\ \E y \in 2023..2024 : SetYear(y)
    \/ RenderCalendarHeatmapHooks

SpecDashboard == InitApp /\ [][NextDashboard]_vars

(***************************************************************************)
(* ForOthersPie.jsx, with the 'for others' field as processExcelFile and   *)
(* generateDummyData write it.  A JavaScript value is the text of its type *)
(* and literal: "num:1" is the number 1, "str:1" the string '1',           *)
(* "bool:true" the boolean true.  A record here has the two fields the     *)
(* chart reads.                                                            *)
(***************************************************************************)
Truthy(v) == v \notin {"undefined", "num:0", "str:", "bool:false"}

\* v == 1
LooseEqualsOne(v) == v \in {"num:1", "str:1", "bool:true"}

\* v === 1
StrictEqualsOne(v) == v = "num:1"

\* dataProcessor.js: forOthers = row['for others'] || 0, then
\* 'for others': forOthers == 1 ? 1 : 0
NormalizedForOthers(cell) ==
    LET forOthers == IF Truthy(cell) THEN cell ELSE "num:0"
    IN  IF LooseEqualsOne(forOthers) THEN "num:1" ELSE "num:0"

\* generateDummyData: 'for others': Math.random() > 0.95, the draw in
\* hundredths
DemoForOthers(draw) == IF draw > 95 THEN "bool:true" ELSE "bool:false"

\* the cells of the column 'for others' of a sheet
ForOthersCells == {"undefined", "num:0", "num:1", "num:2", "str:1", "str:yes"}

DemoDraws == {50, 96}

SplitRecords ==
    {[Expense |-> e, forOthers |-> NormalizedForOthers(cell), producer |-> "normalizer"] :
        e \in 1..2, cell \in ForOthersCells}
    \cup {[Expense |-> e, forOthers |-> DemoForOthers(draw), producer |-> "demo"] :
             e \in 1..2, draw \in DemoDraws}

\* row['for others'] === 1 ? 'For Others' : 'For Myself'
BucketKey(row) == IF StrictEqualsOne(row.forOthers) THEN "For Others" ELSE "For Myself"

\* data.reduce((acc, row) => { acc[key] = (acc[key] || 0) + row.Expense }, {}):
\* the entries of the object in insertion order
RECURSIVE ForOthersData(_)
ForOthersData(rows) ==
    IF rows = <<>> THEN <<>>
    ELSE LET acc == ForOthersData(SubSeq(rows, 1, Len(rows) - 1))
             row == rows[Len(rows)]
             key == BucketKey(row)
         IN  IF \E i \in 1..Len(acc) : acc[i].key = key
             THEN [i \in 1..Len(acc) |->
                      IF acc[i].key = key
                      THEN [acc[i] EXCEPT !.value = @ + row.Expense]
                      ELSE acc[i]]
             ELSE Append(acc, [key |-> key, value |-> row.Expense])

InitSplit ==
    /\ ChatIdle
    /\ AppIdle
    /\ ViewIdle
    /\ dateFns = 2
    /\ data \in SeqsUpTo(SplitRecords, MaxRows)
    /\ filters = NoFilters
    /\ filtered = NotCalled
    /\ refiltered = NotCalled
    /\ stats = NoStats
    /\ insight = NoInsight

\* <ForOthersPie data={...} />
RenderForOthersPie ==
    /\ ~split.called
    /\ split' = [called |-> TRUE, forOthersData |-> ForOthersData(data)]
    /\ UNCHANGED <<pyRuns, series, hooks, compare>>
    /\ UNCHANGED <<trend, correlation, heatmap, metrics, metadata>>
    /\ UNCHANGED <<chatVars, dataVars, appVars>>

NextSplit == RenderForOthersPie

SpecSplit == InitSplit /\ [][NextSplit]_vars

(***************************************************************************)
(* dataProcessor.js: calculateMetrics, and analysisTools.js:               *)
(* getPromptMetadata.  A quotient is kept as its two terms; an object is   *)
(* the sequence of its entries in insertion order.  calculateMetrics is    *)
(* given records whose dates are valid.                                    *)
(***************************************************************************)
NoMetrics ==
    [called |-> TRUE, total |-> 0, avgMonthly |-> [num |-> 0, den |-> 1],
     avgDaily |-> [num |-> 0, den |-> 1], days |-> 0]

calculateMetrics(rows) ==
    IF Len(rows) = 0 THEN NoMetrics
    ELSE LET total == SumBy(rows)
             diffTime == MaxDate(rows) - MinDate(rows)
             \* Math.ceil(diffTime / (1000 * 60 * 60 * 24)) + 1
             days == (diffTime + TicksPerDay - 1) \div TicksPerDay + 1
         IN  [called |-> TRUE, total |-> total,
              \* months = days / 30; total / (months || 1)
              avgMonthly |-> [num |-> total * 30, den |-> days],
              avgDaily |-> [num |-> total, den |-> days],
              days |-> days]

\* the category texts of the model in the order of Array.prototype.sort
\* without a comparator (UTF-16 code units)
CodeUnitOrder ==
    <<"Fitness", "Food", "GROCERY", "Grocery", "Gym", "HOUSING", "Housing",
      "Housing and Utilities", "Snacks", "Unknown", "Utility", "grocery", "gym",
      "housing", "rent", "snacks", "unknown", "utility">>

\* a faulty variant: values are compared as written
FirstOfExactText(arr) ==
    LET Keep(k) == /\ arr[k] # ""
                   /\ \A j \in 1..(k - 1) : arr[j] # arr[k]
        kept == {k \in 1..Len(arr) : Keep(k)}
        At1(r) == CHOOSE k \in kept : Cardinality({j \in kept : j < k}) = r - 1
    IN  [r \in 1..Cardinality(kept) |-> arr[At1(r)]]

\* arr.filter(...) of normalizeUnique: the first of each letter-case class,
\* empty values dropped
FirstOfCase(arr) ==
    LET Keep(k) == /\ arr[k] # ""
                   /\ \A j \in 1..(k - 1) : ToLowerCase(arr[j]) # ToLowerCase(arr[k])
        kept == {k \in 1..Len(arr) : Keep(k)}
        At1(r) == CHOOSE k \in kept : Cardinality({j \in kept : j < k}) = r - 1
    IN  [r \in 1..Cardinality(kept) |-> arr[At1(r)]]

\* normalizeUnique(arr): the filter, then .sort()
NormalizeUnique(arr) ==
    LET values == {FirstOfCase(arr)[k] : k \in 1..Len(FirstOfCase(arr))}
        Rank(v) == CHOOSE k \in 1..Len(CodeUnitOrder) : CodeUnitOrder[k] = v
        Nth(r) == CHOOSE v \in values :
                      Cardinality({w \in values : Rank(w) < Rank(v)}) = r - 1
    IN  [r \in 1..Cardinality(values) |-> Nth(r)]

\* the data.forEach that fills categoryMapping
CategoryMappingOf(rows) ==
    LET usable == SelectSeq(rows, LAMBDA row : row.Category # "" /\ row.NewCategory # "")
        firsts == FirstOfCase([k \in 1..Len(usable) |-> usable[k].Category])
    IN  [r \in 1..Len(firsts) |->
            LET row == usable[CHOOSE k \in 1..Len(usable) :
                                 /\ usable[k].Category = firsts[r]
                                 /\ \A j \in 1..(k - 1) : usable[j].Category # firsts[r]]
            IN  [key |-> row.Category, value |-> row.NewCategory]]

NoMetadata ==
    [called |-> TRUE, columns |-> <<>>, columnTypes |-> <<>>, uniqueCategories |-> <<>>,
     uniqueNewCategories |-> <<>>, categoryMapping |-> <<>>]

getPromptMetadata(rows) ==
    IF Len(rows) = 0 THEN NoMetadata
    ELSE [called |-> TRUE,
          \* Object.keys(data[0]) for the fields a record of the model has
          columns |-> <<"Date", "Expense", "Category", "NewCategory">>,
          columnTypes |-> <<"datetime", "float", "string", "string">>,
          uniqueCategories |-> NormalizeUnique([k \in 1..Len(rows) |-> rows[k].Category]),
          uniqueNewCategories |->
              NormalizeUnique([k \in 1..Len(rows) |-> rows[k].NewCategory]),
          categoryMapping |-> CategoryMappingOf(rows)]

(***************************************************************************)
(* The core harness: a collection made by processExcelFile, filtered as    *)
(* App.jsx does, and each core operation applied once to the filtered      *)
(* data, which is empty for the filters that match no record.              *)
(***************************************************************************)
\* 2023-12-31, 2024-01-01 and 2024-02-01
CoreDates == {At(364, 0), At(365, 0), At(396, 1)}

CoreRows ==
    {SheetRow(d, c, e) : d \in CoreDates, c \in {"", "grocery", "GROCERY", "gym"},
                         e \in {"1", "2"}}

\* Year 2023, Year 2025 and Month 2024-02
CoreFilters ==
    {[NoFilters EXCEPT !.year = 2023], [NoFilters EXCEPT !.year = 2025],
     [NoFilters EXCEPT !.type = "Month", !.year = 2024, !.month = 1]}

InitCore ==
    /\ ChatIdle
    /\ ViewIdle
    /\ parsed = NotParsed /\ LoadsIdle
    /\ dateFns = 2
    /\ sheet \in SeqsUpTo(CoreRows, MaxRows)
    /\ data = ProcessExcelFile(sheet)
    /\ filters \in CoreFilters
    /\ filtered = filterData(dateFns, data, filters)
    /\ refiltered = NotCalled
    /\ stats = NoStats
    /\ insight = NoInsight

\* getAggregatedStats(data, { groupBy }) on the filtered data
GetStatsOfFiltered(groupBy) ==
    /\ ~stats.called
    /\ stats' = [args |-> [groupBy |-> groupBy, startDate |-> <<>>, endDate |-> <<>>]]
                 @@ getAggregatedStats(dateFns, filtered.rows, groupBy, <<>>, <<>>,
                                       AppNow)
    /\ UNCHANGED <<dateFns, data, filters, filtered, refiltered, insight>>
    /\ UNCHANGED <<chatVars, appVars, viewVars>>

\* useMemo(() => calculateMetrics(filteredData))
CalculateMetrics ==
    /\ ~metrics.called
    /\ metrics' = calculateMetrics(filtered.rows)
    /\ UNCHANGED <<trend, correlation, heatmap, metadata, moreVars>>
    /\ UNCHANGED <<chatVars, dataVars, appVars>>

\* getPromptMetadata(data) on the filtered data
GetPromptMetadata ==
    /\ ~metadata.called
    /\ metadata' = getPromptMetadata(filtered.rows)
    /\ UNCHANGED <<trend, correlation, heatmap, metrics, moreVars>>
    /\ UNCHANGED <<chatVars, dataVars, appVars>>

\* calculateCorrelation over the expenseMap of the filtered data
GetCorrelation ==
    /\ ~correlation.called
    /\ correlation' = LET m == ExpenseMap(filtered.rows)
                      IN  [called |-> TRUE, computed |-> TRUE, maxTotal |-> m.maxTotal,
                           maxCount |-> m.maxCount, r |-> calculateCorrelation(m.entries)]
    /\ UNCHANGED <<trend, heatmap, metrics, metadata, moreVars>>
    /\ UNCHANGED <<chatVars, dataVars, appVars>>

NextCore ==
    \/ \E g \in GroupBys : GetStatsOfFiltered(g)
    \/ RenderInsightCards
    \/ GetCorrelation
    \/ CalculateMetrics
    \/ GetPromptMetadata

SpecCore == InitCore /\ [][NextCore]_vars

(***************************************************************************)
(* pythonRunner.js and its other copy (part_003): runPython.  The wrapper  *)
(* program that runPythonAsync is given is described by the features that  *)
(* decide how Python treats it; running it is a function of the wrapper,   *)
(* of what the interpreter has loaded, of the csv and of the snippet.      *)
(***************************************************************************)
\* the wrapperCode template of each copy: lines that begin with `//`
\* (no Python comment: a SyntaxError when the program is compiled), the
\* names the exec_scope literal uses without a definition, and whether
\* exec_scope with __import__('plotly.express') is built inside the try
Wrappers ==
    [pythonRunner |-> [slashLines |-> TRUE, undefinedInScope |-> TRUE,
                       scopeInTry |-> FALSE],
     part_003 |-> [slashLines |-> FALSE, undefinedInScope |-> FALSE,
                   scopeInTry |-> TRUE]]

\* what the generated snippet does under exec: it assigns result, it raises
\* an Exception (a SyntaxError of the snippet included), or it raises a
\* BaseException that is no Exception (sys.exit(): SystemExit)
Snippets == {"assigns", "raisesException", "raisesSystemExit"}

PyRejected(error) == [st |-> "rejected", backend |-> FALSE, result |-> "", error |-> error]
PyResolved(backend, result) ==
    [st |-> "resolved", backend |-> backend, result |-> result, error |-> ""]

\* a faulty variant: the except clause of the wrapper catches nothing
ExecSnippetUncaught(snippet) ==
    IF snippet = "assigns" THEN PyResolved(FALSE, "value")
    ELSE PyRejected("PythonError")

\* the try / except Exception around exec(code, {}, exec_scope)
ExecSnippet(snippet) ==
    CASE snippet = "assigns" -> PyResolved(FALSE, "value")
      [] snippet = "raisesException" -> PyResolved(FALSE, "Error: message")
      [] OTHER -> PyRejected("PythonError")

\* instance.runPythonAsync(wrapperCode) and the return of runPython;
\* level is ready[instance], csvEmpty says arrayToCsv gave ""
RunWrapper(w, level, csvEmpty, snippet) ==
    IF w.slashLines THEN PyRejected("PythonError")          \* SyntaxError
    ELSE IF level < 1 THEN PyRejected("PythonError")        \* import pandas
    ELSE IF csvEmpty THEN PyRejected("PythonError")         \* pd.read_csv("")
    ELSE IF ~w.scopeInTry /\ (level < 2 \/ w.undefinedInScope)
    THEN PyRejected("PythonError")                          \* exec_scope = {...}
    ELSE IF w.scopeInTry /\ level < 2
    THEN PyResolved(FALSE, "Error: message")                \* __import__ in the try
    ELSE ExecSnippet(snippet)

NewRun(copy, code, csvEmpty) ==
    [copy |-> copy, code |-> code, csvEmpty |-> csvEmpty, pc |-> "fetch", tgt |-> 0,
     \* what the interpreter had loaded when the wrapper was run on it
     level |-> 0,
     out |-> [st |-> "pending", backend |-> FALSE, result |-> "", error |-> ""]]

InitRunner ==
    /\ ChatIdle
    /\ DataIdle
    /\ AppIdle
    /\ ViewIdle

\* runPython(code, data) up to its fetch; one copy of the module per build
RunPython(copy, code, csvEmpty) ==
    /\ Len(pyRuns) < MaxRuns
    /\ IF pyRuns = <<>> THEN TRUE ELSE pyRuns[1].copy = copy
    /\ pyRuns' = Append(pyRuns, NewRun(copy, code, csvEmpty))
    /\ UNCHANGED <<trend, correlation, heatmap, metrics, metadata,
                   series, split, hooks, compare>>
    /\ UNCHANGED <<chatVars, dataVars, appVars>>

\* runPython resumed at its await; ok is the awaited outcome of the fetch
\* (a response with response.ok) or of the step of initPyodide
RunPythonResume(i, ok) ==
    /\ i \in 1..Len(pyRuns)
    /\ pyRuns[i].pc # "done"
    /\ LET run == pyRuns[i]
           pc == run.pc
           r  == IF pc = "fetch" /\ ~ok THEN InitPyodideCall(Globals)
                 ELSE IF pc \in PyPcs
                      THEN InitPyodideResume(Globals, pc, run.tgt, ok)
                      ELSE [st |-> "none", ret |-> 0, pc |-> "done", tgt |-> 0, g |-> Globals]
           Done(out) == [run EXCEPT !.pc = "done", !.out = out]
           next == CASE pc = "fetch" /\ ok -> Done(PyResolved(TRUE, "value"))
                     [] r.st = "pending" -> [run EXCEPT !.pc = r.pc, !.tgt = r.tgt]
                     [] r.st = "rejected" -> Done(PyRejected("load"))
                     [] r.st = "resolved" ->
                          \* code.replace(...) in the template literal
                          IF run.code = "null" THEN Done(PyRejected("TypeError"))
                          ELSE [run EXCEPT !.pc = "exec", !.tgt = r.ret]
                     [] OTHER ->
                          [Done(RunWrapper(Wrappers[run.copy], ready[run.tgt],
                                           run.csvEmpty, run.code))
                              EXCEPT !.level = ready[run.tgt]]
       IN  /\ pc = "exec" => ok
           /\ SetGlobals(r.g)
           /\ resolvedTo' = IF r.st = "resolved" THEN resolvedTo \cup {r.ret} ELSE resolvedTo
           /\ pyRuns' = [pyRuns EXCEPT ![i] = next]
    /\ UNCHANGED <<showChat, isLoading, isConnected, selectedModel, input, messages,
                   inits, sends>>
    /\ UNCHANGED <<trend, correlation, heatmap, metrics, metadata,
                   series, split, hooks, compare>>
    /\ UNCHANGED <<dataVars, appVars>>

NextRunner ==
    \/ \E copy \in DOMAIN Wrappers, code \in Snippets \cup {"null"}, csvEmpty \in BOOLEAN :
          RunPython(copy, code, csvEmpty)
    \/ \E i \in 1..MaxRuns, ok \in BOOLEAN : RunPythonResume(i, ok)

SpecRunner == InitRunner /\ [][NextRunner]_vars

Init ==
    /\ ChatIdle
    /\ DataIdle
    /\ AppIdle
    /\ ViewIdle

Next ==
    \/ ToggleChat
    \/ Retry
    \/ \E i \in 1..Len(inits), ok \in BOOLEAN : InitializeOllamaResume(i, ok)
    \/ \E s \in {" ", "q"} : SetInput(s)
    \/ HandleSend
    \/ \E p \in 1..Len(sends), out \in Outcomes : HandleSendResume(p, out)

Spec == Init /\ [][Next]_vars

\* every promise handleSend awaits (a fetch, a step of initPyodide, a chat
\* completion) settles: the execution suspended on it is resumed
ResumeSend(p) ==
    /\ p \in 1..Len(sends)
    /\ \E out \in Outcomes : HandleSendResume(p, out)

SpecLive == Init /\ [][Next]_vars /\ \A p \in 1..MaxSends : WF_vars(ResumeSend(p))

(***************************************************************************)
(* C1: when the analysis backend is unavailable and every other            *)
(* collaborator works, a finished query has shown the offline notice,      *)
(* requested a snippet, executed it locally and ended with a non-error     *)
(* assistant message.                                                      *)
(***************************************************************************)
C1_FallbackRecovers ==
    \A p \in 1..Len(sends) :
        (sends[p].pc = "done" /\ sends[p].backendDown /\ ~sends[p].extFail)
            => /\ sends[p].notice
               /\ sends[p].requested
               /\ sends[p].executed
               /\ sends[p].final = "assistant"

(***************************************************************************)
(* C2: at most one handleSend execution is in flight at any time.          *)
(***************************************************************************)
InFlight == {p \in 1..Len(sends) : sends[p].pc # "done"}

C2_OneQueryInFlight == Cardinality(InFlight) <= 1

(***************************************************************************)
(* C3: loadPyodide is invoked at most once (at most one invocation is      *)
(* pending or has produced an interpreter; an invocation that rejected is  *)
(* not counted) and every initPyodide call resolves to the same single     *)
(* interpreter.                                                            *)
(***************************************************************************)
PendingLoads ==
    {<<"init", i>> : i \in {j \in 1..Len(inits) : inits[j].pc = "pyLoad"}}
        \cup {<<"send", p>> : p \in {q \in 1..Len(sends) : sends[q].pc = "pyLoad"}}

C3_InitPyodideIdempotent ==
    /\ Len(ready) + Cardinality(PendingLoads) <= 1
    /\ Cardinality(resolvedTo) <= 1

(***************************************************************************)
(* C5: filterData is idempotent: filterData(filterData(r, f), f) equals    *)
(* filterData(r, f), for every collection r and every filter f.            *)
(***************************************************************************)
C5_FilterIdempotent == refiltered.called => refiltered = filtered

\* the filter was applied twice to a collection of which it keeps a part
C5_Witness ==
    /\ refiltered.called
    /\ ~filtered.threw
    /\ filtered.rows # <<>>
    /\ Len(filtered.rows) < Len(data)

(***************************************************************************)
(* C6: on records with valid dates filterData returns exactly the records  *)
(* (that pass the rent toggle and) that match the period: Year(y) those of *)
(* calendar year y, Month(y, m) those of year y and zero-indexed month m,  *)
(* Day(d) those of d's calendar day, Custom Range(start, end) those with   *)
(* start <= date <= end.                                                   *)
(***************************************************************************)
\* the day number of January 1st of year y >= 2023
RECURSIVE YearStart(_)
YearStart(y) == IF y <= 2023 THEN 0 ELSE YearStart(y - 1) + DaysInYear(y - 1)

\* the day number of the first day of zero-indexed month m of year y
RECURSIVE MonthStart(_, _)
MonthStart(y, m) ==
    IF m = 0 THEN YearStart(y) ELSE MonthStart(y, m - 1) + DaysInMonth(y, m - 1)

PeriodMatches(row, f) ==
    LET day == DayOf(row.Date)
    IN  CASE f.type = "Year" -> YearStart(f.year) <= day /\ day < YearStart(f.year + 1)
          [] f.type = "Month" ->
                /\ MonthStart(f.year, f.month) <= day
                /\ day < MonthStart(f.year, f.month) + DaysInMonth(f.year, f.month)
          [] f.type = "Day" -> day = DayOf(f.date)
          [] OTHER -> f.startDate <= row.Date /\ row.Date <= f.endDate

AllValid(rows) == \A i \in 1..Len(rows) : rows[i].Date # InvalidDate

C6_FilterKeepsExactlyPeriod ==
    (filtered.called /\ AllValid(data))
        => /\ ~filtered.threw
           /\ filtered.rows = SelectSeq(RentLogic(data, filters.includeRent),
                                        LAMBDA r : PeriodMatches(r, filters))

\* the same statement for the filters whose range is not reversed
C6_ExceptReversedRange ==
    (filtered.called /\ AllValid(data)
       /\ (filters.type = "Custom Range" => filters.startDate <= filters.endDate))
        => /\ ~filtered.threw
           /\ filtered.rows = SelectSeq(RentLogic(data, filters.includeRent),
                                        LAMBDA r : PeriodMatches(r, filters))

(***************************************************************************)
(* C7: with includeRent false, whenever the period filter yields a result, *)
(* the records the toggle removes are exactly those whose raw category is  *)
(* 'housing' in any letter case; every other record the period keeps is    *)
(* kept.                                                                   *)
(***************************************************************************)
HousingSpellings == {"housing", "Housing", "HOUSING"}

WithRent == filterData(dateFns, data, [filters EXCEPT !.includeRent = TRUE])

C7_RentTogglesHousingOnly ==
    (filtered.called /\ ~filters.includeRent /\ ~filtered.threw /\ ~WithRent.threw)
        => filtered.rows =
              SelectSeq(WithRent.rows, LAMBDA r : r.Category \notin HousingSpellings)

\* the toggle removed a 'Housing' record and kept a 'utility' record
C7_Witness ==
    /\ filtered.called /\ ~filters.includeRent /\ ~filtered.threw /\ ~WithRent.threw
    /\ \E i \in 1..Len(WithRent.rows) : WithRent.rows[i].Category = "Housing"
    /\ \E i \in 1..Len(filtered.rows) : filtered.rows[i].Category = "utility"

(***************************************************************************)
(* C4: for every non-empty record set and every groupBy key (category,     *)
(* day, week, month, year) getAggregatedStats, called without a date       *)
(* range, returns groups whose totals sum to the sum of all record amounts *)
(* and whose counts sum to the number of records.                          *)
(***************************************************************************)
RECURSIVE SumOf(_, _)
SumOf(seq, field) ==
    IF seq = <<>> THEN 0 ELSE seq[1][field] + SumOf(Tail(seq), field)

Unranged == stats.args.startDate = <<>> /\ stats.args.endDate = <<>>

C4_GroupingConserves ==
    (stats.called /\ Unranged /\ data # <<>>)
        => /\ ~stats.threw
           /\ stats.text = ""
           /\ SumOf(stats.groups, "total") = SumOf(data, "Expense")
           /\ SumOf(stats.groups, "count") = Len(data)

\* the same statement for the record sets without an invalid Date
C4_OnValidDates ==
    (stats.called /\ Unranged /\ data # <<>> /\ AllValid(data))
        => /\ ~stats.threw
           /\ stats.text = ""
           /\ SumOf(stats.groups, "total") = SumOf(data, "Expense")
           /\ SumOf(stats.groups, "count") = Len(data)

(***************************************************************************)
(* The streak claims speak of the data-bearing days in chronological order *)
(* and the dominant category of each; a run is a stretch i..j of these     *)
(* days with one dominant category that cannot be extended on either side. *)
(***************************************************************************)
BearingDays ==
    SortKeys({FormatDay(filtered.rows[i].Date) : i \in 1..Len(filtered.rows)})

Dominant ==
    LET days == BearingDays
        sorted == SortedData(filtered.rows)
    IN  [i \in 1..Len(days) |-> TopCat(sorted, days[i])]

IsRun(dom, i, j) ==
    /\ i <= j
    /\ \A k \in i..j : dom[k] = dom[i]
    /\ i = 1 \/ dom[i - 1] # dom[i]
    /\ j = Len(dom) \/ dom[j + 1] # dom[j]

RunLength(r) == r[2] - r[1] + 1

LongestRuns(dom) ==
    LET runs == {r \in (1..Len(dom)) \X (1..Len(dom)) : IsRun(dom, r[1], r[2])}
    IN  {r \in runs : \A o \in runs : RunLength(r) >= RunLength(o)}

(***************************************************************************)
(* C8: on non-empty data the streak detector reports the length, the       *)
(* category and the day list of a longest run, the day list has exactly    *)
(* the reported length, and on days dominated by A, A, B, A it reports     *)
(* length 2 for A with the first two days.                                 *)
(***************************************************************************)
C8_StreakIsLongestRun ==
    (insight.called /\ filtered.rows # <<>>)
        => LET days == BearingDays
               dom == Dominant
               longest == LongestRuns(dom)
           IN  /\ \E r \in longest :
                     /\ insight.maxStreak = RunLength(r)
                     /\ insight.maxStreakCategory = dom[r[1]]
                     /\ insight.streakDays = SubSeq(days, r[1], r[2])
               /\ Len(insight.streakDays) = insight.maxStreak
               /\ (/\ Len(dom) = 4
                   /\ dom[1] = dom[2] /\ dom[3] # dom[1]
                   /\ dom[4] = dom[1])
                      => /\ insight.maxStreak = 2
                         /\ insight.maxStreakCategory = dom[1]
                         /\ insight.streakDays = SubSeq(days, 1, 2)

\* rendered on four days dominated by Food, Food, Fitness, Food
C8_Witness ==
    /\ insight.called
    /\ insight.maxStreak = 2
    /\ Dominant = <<"Food", "Food", "Fitness", "Food">>

(***************************************************************************)
(* C9: when several runs share the maximum length the detector reports    *)
(* the chronologically earliest of them, also when a later one is the last *)
(* run of the data.                                                        *)
(***************************************************************************)
C9_EarliestStreakKept ==
    (insight.called /\ filtered.rows # <<>>)
        => LET days == BearingDays
           IN  \A r \in LongestRuns(Dominant) :
                   /\ insight.streakDays # <<>>
                   /\ ~DateKeyBefore(days[r[1]], insight.streakDays[1])

\* two longest runs of two days each, the later one ending the data
C9_Witness ==
    /\ insight.called
    /\ insight.maxStreakCategory = "Fitness"
    /\ Dominant = <<"Fitness", "Fitness", "Food", "Food">>
    /\ LongestRuns(Dominant) = {<<1, 2>>, <<3, 4>>}

(***************************************************************************)
(* C10: on non-empty filtered data the top-spending day is one calendar    *)
(* day whose total is the maximum over all days, its total is the sum of   *)
(* the amounts of its items, and its items are exactly the filtered        *)
(* records dated on that day.                                              *)
(***************************************************************************)
OnDay(day) == SelectSeq(filtered.rows, LAMBDA r : DayOf(r.Date) = day)
DaysPresent == {DayOf(filtered.rows[i].Date) : i \in 1..Len(filtered.rows)}

C10_TopDayIsMaximal ==
    (insight.called /\ filtered.rows # <<>>)
        => /\ insight.topDay.present
           /\ \E day \in DaysPresent :
                 /\ insight.topDay.date = FormatDay(At(day, 0))
                 /\ insight.topDay.items = OnDay(day)
                 /\ \A other \in DaysPresent :
                        insight.topDay.total >= SumOf(OnDay(other), "Expense")
           /\ insight.topDay.total = SumOf(insight.topDay.items, "Expense")

\* the top day holds two of the records and another day holds the rest
C10_Witness ==
    /\ insight.called
    /\ Len(insight.topDay.items) = 2
    /\ Len(filtered.rows) > 2
    /\ insight.topDay.total = 3

(***************************************************************************)
(* C11: the moving average is a trailing window of 10 over the per-day     *)
(* totals in date order: positions 0..8 are null and position i >= 9 is    *)
(* the sum of the daily totals at positions i-9..i divided by 10; when the *)
(* daily totals are strictly increasing every defined moving-average value *)
(* is strictly less than the raw total at its position.                    *)
(***************************************************************************)
DayTotals ==
    LET days == {DayOf(filtered.rows[i].Date) : i \in 1..Len(filtered.rows)}
    IN  [d \in days |-> SumOf(SelectSeq(filtered.rows, LAMBDA r : DayOf(r.Date) = d),
                              "Expense")]

\* the i-th smallest element (i from 1) of a set of integers
NthOf(S, i) == CHOOSE x \in S : Cardinality({y \in S : y < x}) = i - 1

RECURSIVE SumOver(_, _)
SumOver(f, S) ==
    IF S = {} THEN 0 ELSE LET x == CHOOSE y \in S : TRUE IN f[x] + SumOver(f, S \ {x})

C11_TrailingMovingAverage ==
    trend.called
        => LET totals == DayTotals
               days == DOMAIN totals
               n == Cardinality(days)
               raw == [i \in 1..n |-> totals[NthOf(days, i)]]
               avg == trend.movingAvg
           IN  /\ trend.values = raw
               /\ Len(avg) = n
               /\ \A i \in 1..n :
                     IF i <= 9 THEN avg[i].null
                     ELSE /\ ~avg[i].null
                          /\ avg[i].den = 10
                          /\ avg[i].num = SumOver(raw, (i - 9)..i)
               /\ (\A i \in 1..(n - 1) : raw[i] < raw[i + 1])
                      => \A i \in 10..n : avg[i].num < avg[i].den * raw[i]

\* rendered on more than ten days of strictly increasing daily totals
C11_Witness ==
    /\ trend.called
    /\ Len(trend.values) > 10
    /\ \A i \in 1..(Len(trend.values) - 1) : trend.values[i] < trend.values[i + 1]
    /\ ~trend.movingAvg[11].null

(***************************************************************************)
(* C12: calculateCorrelation returns null when fewer than two days have    *)
(* transactions; with two or more such days it returns 0 when the product  *)
(* of the two variance terms is not positive, and otherwise a coefficient  *)
(* r with -1 <= r <= 1, that is numerator squared <= the variance product. *)
(***************************************************************************)
\* the per-day counts and totals of the filtered records
DayCounts ==
    LET days == {DayOf(filtered.rows[i].Date) : i \in 1..Len(filtered.rows)}
    IN  [d \in days |-> Len(SelectSeq(filtered.rows, LAMBDA r : DayOf(r.Date) = d))]

VarianceProduct ==
    LET cnt == DayCounts
        tot == DayTotals
        days == DOMAIN cnt
        n == Cardinality(days)
        sq(f) == [d \in days |-> f[d] * f[d]]
    IN  (n * SumOver(sq(cnt), days) - SumOver(cnt, days) * SumOver(cnt, days))
            * (n * SumOver(sq(tot), days) - SumOver(tot, days) * SumOver(tot, days))

C12_CorrelationBounded ==
    (correlation.called /\ correlation.computed)
        => LET r == correlation.r
               product == VarianceProduct
           IN  /\ r.null <=> Cardinality(DOMAIN DayCounts) < 2
               /\ ~r.null => /\ r.zero <=> product <= 0
                             /\ r.denomVal = product
                             /\ r.numerator * r.numerator <= r.denomVal

\* rendered on three days whose counts and totals are neither constant nor
\* perfectly correlated
C12_Witness ==
    /\ correlation.called
    /\ ~correlation.r.null /\ ~correlation.r.zero
    /\ correlation.r.numerator # 0
    /\ correlation.r.numerator * correlation.r.numerator < correlation.r.denomVal

(***************************************************************************)
(* C13: on non-empty data the outlier threshold is the amount at index     *)
(* floor(n * quantile) of the amounts sorted ascending (for 100 amounts    *)
(* and quantile 0.96 the 97th smallest), and the maximum amount when that  *)
(* index is out of range; exactly the records whose amount is strictly     *)
(* greater than the threshold are trimmed, and the input collection is     *)
(* left as the normalizer made it.                                         *)
(***************************************************************************)
Amounts == {<<i, data[i].Expense>> : i \in 1..Len(data)}

\* the k-th smallest amount (k from 1), duplicates counted
KthSmallest(k) ==
    LET a == CHOOSE p \in Amounts :
                 /\ Cardinality({q \in Amounts : q[2] < p[2]}) < k
                 /\ Cardinality({q \in Amounts : q[2] <= p[2]}) >= k
    IN  a[2]

C13_QuantileThreshold ==
    (heatmap.called /\ data # <<>>)
        => LET n == Len(data)
               q == heatmap.quantile
               \* floor(n * quantile) = index
               index == CHOOSE k \in 0..n :
                            /\ k * q.den <= n * q.num
                            /\ n * q.num < (k + 1) * q.den
           IN  /\ ~heatmap.threshold.negInf
               /\ heatmap.threshold.val =
                      IF index < n THEN KthSmallest(index + 1) ELSE KthSmallest(n)
               /\ (n = 100 /\ q = [num |-> 96, den |-> 100])
                      => heatmap.threshold.val = KthSmallest(97)
               /\ heatmap.filtered =
                      SelectSeq(data, LAMBDA d : ~(d.Expense > heatmap.threshold.val))
               /\ data = ProcessExcelFile(sheet)

\* rendered on 100 amounts with the default quantile: the records above the
\* 97th smallest amount are trimmed
C13_Witness ==
    /\ heatmap.called
    /\ Len(data) = 100
    /\ heatmap.quantile = [num |-> 96, den |-> 100]
    /\ heatmap.thresholdIndex = 96
    /\ heatmap.threshold.val = 2
    /\ Len(heatmap.filtered) = 97

(***************************************************************************)
(* C14: every record of the collection the normalizer produces has a       *)
(* strictly positive amount: the rows whose amount is zero, negative,      *)
(* missing, or not a number and so coerced to 0, are excluded, and every   *)
(* other row is kept.                                                      *)
(***************************************************************************)
\* the amount cell of a row: `Expense`, else `expense`, else none
AmountCell(row) == IF row.Expense # "" THEN row.Expense ELSE row.expense

\* the cells that are missing, no number at all, zero or negative; a cell
\* that starts with a positive number ("2", "2abc") is none of them
ExcludedCells == {"", "abc", "0", "-5"}

C14_PositiveAmounts ==
    parsed.called
        => LET kept == SelectSeq(sheet, LAMBDA row : AmountCell(row) \notin ExcludedCells)
           IN  /\ ~parsed.rejected
               /\ \A i \in 1..Len(parsed.rows) : parsed.rows[i].Expense > 0
               /\ Len(parsed.rows) = Len(kept)
               /\ \A i \in 1..Len(kept) : parsed.rows[i].Date = kept[i].Date

\* a sheet with a row of each excluded kind next to a kept one
C14_Witness ==
    /\ parsed.called
    /\ Len(sheet) = 2
    /\ Len(parsed.rows) = 1
    /\ \E i \in 1..2 : AmountCell(sheet[i]) \in ExcludedCells
    /\ parsed.rows[1].Expense > 0

(***************************************************************************)
(* C15: every record of the collection has a valid date: a row whose date  *)
(* cannot be parsed does not enter the collection with an invalid date,    *)
(* it is surfaced to the caller as a parse failure.                        *)
(***************************************************************************)
C15_ValidDates ==
    parsed.called
        => /\ \A i \in 1..Len(parsed.rows) : parsed.rows[i].Date # InvalidDate
           /\ (\E i \in 1..Len(sheet) : sheet[i].Date = InvalidDate) => parsed.rejected

(***************************************************************************)
(* C16: for every normalized record the mapped category is never empty:    *)
(* it is the mapping table's group when the raw category is exactly a key  *)
(* of the table, otherwise the raw category unchanged, and a row with no   *)
(* category has raw and mapped category 'Unknown'; a miss is no error.     *)
(***************************************************************************)
\* the groups of the mapping table for the category texts of the model
MappingTable ==
    [k \in {"grocery", "Grocery", "snacks", "Snacks", "housing", "Housing",
            "utility", "Utility", "gym", "Gym"} |->
        IF k \in {"grocery", "Grocery", "snacks", "Snacks"} THEN "Food"
        ELSE IF k \in {"gym", "Gym"} THEN "Fitness" ELSE "Housing and Utilities"]

CategoryCell(row) == IF row.category # "" THEN row.category ELSE row.Category

C17_CategoryHeaderVariant ==
    parsed.called
        => LET kept == SelectSeq(sheet, LAMBDA row : ExpenseOf(row) > 0)
           IN  \A i \in 1..Len(kept) :
                   CategoryCell(kept[i]) # ""
                       => parsed.rows[i].Category = CategoryCell(kept[i])

(***************************************************************************)
(* C18: whenever a new raw dataset becomes the current one, by a completed *)
(* file upload or by choosing the demo dataset, the filter's startDate and *)
(* endDate are the minimum and the maximum record date of that dataset.    *)
(***************************************************************************)
\* the step completes load i: a handleUseDemo execution, or a
\* handleFileUpload execution that resumes with the resolved promise
Completes(i) ==
    /\ i \in 1..Len(loads')
    /\ \/ i > Len(loads) /\ loads'[i].kind = "demo"
       \/ i <= Len(loads) /\ loads[i].pc = "await" /\ loads'[i].pc \in {"done", "threw"}

\* the new dataset has records and all their dates are valid
HasDateRange(records) == Len(records) > 0 /\ InvalidDate \notin DateTimes(records)

C18_LoadResetsRange ==
    [][\A i \in 1..MaxLoads :
          (Completes(i) /\ HasDateRange(rawData'.rows))
              => /\ filters'.startDate = MinDate(rawData'.rows)
                 /\ filters'.endDate = MaxDate(rawData'.rows)]_vars

\* the same statement for the file uploads alone
C18_UploadResetsRange ==
    [][\A i \in 1..MaxLoads :
          (Completes(i) /\ loads'[i].kind = "upload" /\ HasDateRange(rawData'.rows))
              => /\ filters'.startDate = MinDate(rawData'.rows)
                 /\ filters'.endDate = MaxDate(rawData'.rows)]_vars

(***************************************************************************)
(* C19: after any sequence of dataset loads, in any completion order, the  *)
(* collection the app holds is exactly the records of the load that        *)
(* completed last: each completion replaces the collection as a whole, and *)
(* nothing else puts records into it.                                      *)
(***************************************************************************)
\* the records a load delivers
RecordsOf(load) ==
    IF load.kind = "demo" THEN GenerateDummyData(load.seed)
    ELSE ProcessExcelFile(load.file.rows)

C19_LoadReplacesCollection ==
    [][/\ \A i \in 1..MaxLoads :
             Completes(i)
                 => rawData' = [null |-> FALSE, rows |-> RecordsOf(loads'[i])]
       /\ rawData' # rawData
             => \/ rawData'.null
                \/ \E i \in 1..MaxLoads : Completes(i)]_vars

\* two uploads of different non-empty datasets, both completed, the one
\* started first completing last: its records are the collection
C19_Witness ==
    /\ Len(loads) = 2
    /\ loads[1].kind = "upload" /\ loads[1].pc = "done"
    /\ loads[2].kind = "upload" /\ loads[2].pc = "done"
    /\ RecordsOf(loads[1]) # <<>> /\ RecordsOf(loads[2]) # <<>>
    /\ RecordsOf(loads[1]) # RecordsOf(loads[2])
    /\ rawData = [null |-> FALSE, rows |-> RecordsOf(loads[1])]

(***************************************************************************)
(* C20: on an empty record collection no core operation throws and each    *)
(* returns its empty result: getAggregatedStats an empty aggregate list,   *)
(* the correlation none ("not applicable"), no top-spending day, a streak  *)
(* of length 0 with no days, calculateMetrics all zeros, getPromptMetadata *)
(* empty columns, categories and mapping.                                  *)
(***************************************************************************)
\* what the operations other than getAggregatedStats return on empty data
EmptyResultsButStats ==
    /\ stats.called => ~stats.threw
    /\ correlation.called => correlation.r = NoCoefficient
    /\ insight.called => /\ ~insight.topDay.present
                         /\ insight.maxStreak = 0
                         /\ insight.streakDays = <<>>
    /\ metrics.called => /\ metrics.total = 0 /\ metrics.days = 0
                         /\ metrics.avgMonthly.num = 0 /\ metrics.avgDaily.num = 0
    /\ metadata.called => /\ metadata.columns = <<>>
                          /\ metadata.uniqueCategories = <<>>
                          /\ metadata.uniqueNewCategories = <<>>
                          /\ metadata.categoryMapping = <<>>

C20_EmptyCollection ==
    (~filtered.threw /\ filtered.rows = <<>>)
        => /\ EmptyResultsButStats
           \* the value returned is a list, and it is empty
           /\ stats.called => stats.text = "" /\ stats.groups = <<>>

\* the same statement without the kind of value getAggregatedStats returns
C20_ExceptAggregateList ==
    (~filtered.threw /\ filtered.rows = <<>>) => EmptyResultsButStats

\* every operation has run on an empty collection
C20_AllRunOnEmpty ==
    /\ filtered.rows = <<>> /\ data # <<>>
    /\ stats.called /\ correlation.called /\ insight.called
    /\ metrics.called /\ metadata.called

(***************************************************************************)
(* C21: when the local path of runPython executes a snippet that raises,   *)
(* runPython does not reject: it resolves with backend false and a result  *)
(* text 'Error: <message>'.                                                *)
(***************************************************************************)
\* run i went down the local path with a snippet that raises an Exception,
\* on an interpreter with every package loaded and a csv that has rows, and
\* has settled
RaisingSnippetRun(i) ==
    /\ pyRuns[i].pc = "done"
    /\ pyRuns[i].code = "raisesException"
    /\ pyRuns[i].tgt # 0 /\ pyRuns[i].level = 2
    /\ ~pyRuns[i].csvEmpty

C21_SnippetErrorIsResult ==
    \A i \in 1..Len(pyRuns) :
        RaisingSnippetRun(i)
            => pyRuns[i].out = PyResolved(FALSE, "Error: message")

\* the same statement for the other copy of the module alone
C21_OtherCopy ==
    \A i \in 1..Len(pyRuns) :
        (RaisingSnippetRun(i) /\ pyRuns[i].copy = "part_003")
            => pyRuns[i].out = PyResolved(FALSE, "Error: message")

\* a raising snippet has been run to its end under each copy
C21_RunUnderOtherCopy ==
    \E i \in 1..Len(pyRuns) : RaisingSnippetRun(i) /\ pyRuns[i].copy = "part_003"

(***************************************************************************)
(* C23: grouping by week keys every record by the ISO week-start date, the *)
(* Monday on or before the record's date, so two records are in the same   *)
(* week group exactly when they lie in the same Monday-to-Sunday week.     *)
(***************************************************************************)
\* the Monday on or before t (day 0 of the model, 2023-01-01, is a Sunday)
IsoWeekStart(t) == At(DayOf(t) - ((DayOf(t) + 6) % 7), 0)

\* getAggregatedStats grouped the whole collection by week and returned
\* the groups
GroupedByWeek == 
    /\ stats.called /\ ~stats.threw /\ stats.text = ""
    /\ stats.args.groupBy = "week"
    /\ stats.args.startDate = <<>> /\ stats.args.endDate = <<>>

C23_WeekStartsMonday ==
    GroupedByWeek
        => LET keys == {stats.groups[i].key : i \in 1..Len(stats.groups)}
           IN  keys = {FormatDay(IsoWeekStart(data[i].Date)) : i \in 1..Len(data)}

\* what the code does: the key is the Sunday on or before the date
C23_WeekStartsSunday ==
    GroupedByWeek
        => LET keys == {stats.groups[i].key : i \in 1..Len(stats.groups)}
           IN  keys = {FormatDay(At(DayOf(data[i].Date) - (DayOf(data[i].Date) % 7), 0)) :
                          i \in 1..Len(data)}

\* a Sunday and the Monday after it grouped by week
C23_SundayAndMonday ==
    /\ GroupedByWeek
    /\ \E i, j \in 1..Len(data) : /\ DayOf(data[i].Date) % 7 = 0
                                  /\ DayOf(data[j].Date) = DayOf(data[i].Date) + 1

(***************************************************************************)
(* C22: every handleSend execution that passes its guard appends the       *)
(* user's message first and then terminates by appending exactly one final *)
(* assistant message, the result or an inline 'Error: ...' message, and    *)
(* sets isLoading to false on every path; no failure escapes it.           *)
(***************************************************************************)
Finals == {"assistant", "error"}

\* how many of the first k messages are of the given kinds
CountIn(kinds, k) == Cardinality({j \in 1..k : messages[j] \in kinds})

\* one user message per execution, one final message per finished
\* execution, none before the user message it answers
MessagesMatchSends ==
    /\ CountIn({"user"}, Len(messages)) = Len(sends)
    /\ CountIn(Finals, Len(messages))
          = Cardinality({p \in 1..Len(sends) : sends[p].pc = "done"})
    /\ \A k \in 1..Len(messages) : CountIn(Finals, k) <= CountIn({"user"}, k)
    /\ \A p \in 1..Len(sends) : sends[p].pc = "done" <=> sends[p].final \in Finals

\* the step that starts an execution appends the user's message; the step
\* that ends one appends its final message last and sets isLoading false
SendStep ==
    /\ Len(sends') > Len(sends) => messages' = Append(messages, "user")
    /\ \A p \in 1..Len(sends) :
          (sends[p].pc # "done" /\ sends'[p].pc = "done")
              => /\ isLoading' = FALSE
                 /\ messages'[Len(messages')] = sends'[p].final
                 /\ Len(messages') >= Len(messages) + 1
                 /\ \A k \in (Len(messages) + 1)..(Len(messages') - 1) :
                       messages'[k] \notin Finals

C22_SendEndsWithOneMessage ==
    /\ []MessagesMatchSends
    /\ [][SendStep]_vars
    /\ \A p \in 1..MaxSends :
          (Len(sends) >= p) ~> (Len(sends) >= p /\ sends[p].pc = "done")

\* two finished executions, one ended by the result and one by the catch
C22_Witness ==
    /\ Len(sends) = 2
    /\ sends[1].pc = "done" /\ sends[2].pc = "done"
    /\ {sends[1].final, sends[2].final} = Finals
    /\ ~isLoading

(***************************************************************************)
(* C24: getPromptMetadata returns category lists without two entries equal *)
(* ignoring case, in which every non-empty category of the data is         *)
(* represented, and a categoryMapping with one key per letter-case class   *)
(* of raw category, each key a raw category of the data, mapped to the     *)
(* mapped category of the first record carrying it.                        *)
(***************************************************************************)
NoTwoEqualIgnoringCase(list) ==
    \A i, j \in 1..Len(list) : i # j => ToLowerCase(list[i]) # ToLowerCase(list[j])

\* list holds values of the column and one of them for each non-empty value
Represents(list, column) ==
    /\ \A i \in 1..Len(list) : \E k \in 1..Len(column) : list[i] = column[k]
    /\ \A k \in 1..Len(column) :
          column[k] # "" => \E i \in 1..Len(list) :
                                ToLowerCase(list[i]) = ToLowerCase(column[k])

\* the first record of rows whose raw category equals key ignoring case
FirstCarrying(rows, key) ==
    CHOOSE k \in 1..Len(rows) :
        /\ ToLowerCase(rows[k].Category) = ToLowerCase(key)
        /\ \A j \in 1..(k - 1) : ToLowerCase(rows[j].Category) # ToLowerCase(key)

MappingOfFirstRecords(mapping, rows) ==
    /\ NoTwoEqualIgnoringCase([i \in 1..Len(mapping) |-> mapping[i].key])
    /\ Represents([i \in 1..Len(mapping) |-> mapping[i].key],
                  [k \in 1..Len(rows) |-> rows[k].Category])
    /\ \A i \in 1..Len(mapping) :
          /\ mapping[i].key = rows[FirstCarrying(rows, mapping[i].key)].Category
          /\ mapping[i].value = rows[FirstCarrying(rows, mapping[i].key)].NewCategory

C24_MetadataDeduplicated ==
    metadata.called =>
        LET rows == filtered.rows
        IN  /\ NoTwoEqualIgnoringCase(metadata.uniqueCategories)
            /\ NoTwoEqualIgnoringCase(metadata.uniqueNewCategories)
            /\ Represents(metadata.uniqueCategories,
                          [k \in 1..Len(rows) |-> rows[k].Category])
            /\ Represents(metadata.uniqueNewCategories,
                          [k \in 1..Len(rows) |-> rows[k].NewCategory])
            /\ MappingOfFirstRecords(metadata.categoryMapping, rows)

\* two records whose raw categories differ in letter case only and whose
\* mapped categories differ: one entry, one key, the first record's value
C24_Witness ==
    /\ metadata.called
    /\ Len(filtered.rows) = 2
    /\ filtered.rows[1].Category # filtered.rows[2].Category
    /\ ToLowerCase(filtered.rows[1].Category) = ToLowerCase(filtered.rows[2].Category)
    /\ filtered.rows[1].NewCategory # filtered.rows[2].NewCategory
    /\ Len(metadata.uniqueCategories) = 1
    /\ Len(metadata.categoryMapping) = 1

(***************************************************************************)
(* C25: the cumulative series of a year lists that year's records in       *)
(* chronological order, each with its day-of-year in 1..366 and the        *)
(* running total up to and including it; the totals are non-decreasing and *)
(* the last one is the sum of all amounts of that year.                    *)
(***************************************************************************)
RecordsOfYear(rows, year) == SelectSeq(rows, LAMBDA d : GetFullYear(d.Date) = year)

IsCumulativeSeriesOf(points, rows, year) ==
    LET own == RecordsOfYear(rows, year)
        Before(day) == SelectSeq(own, LAMBDA d : GetDayOfYear(d.Date) < day)
        UpTo(day) == SelectSeq(own, LAMBDA d : GetDayOfYear(d.Date) <= day)
    IN  /\ Len(points) = Len(own)
        /\ \A k \in 1..Len(points) :
              /\ points[k].dayOfYear \in 1..366
              /\ Cardinality({j \in 1..Len(points) : points[j].dayOfYear = points[k].dayOfYear})
                    = Len(UpTo(points[k].dayOfYear)) - Len(Before(points[k].dayOfYear))
              \* the total covers the earlier days and no later day
              /\ points[k].cumulative > SumBy(Before(points[k].dayOfYear))
              /\ points[k].cumulative <= SumBy(UpTo(points[k].dayOfYear))
        /\ \A k \in 2..Len(points) :
              /\ points[k - 1].dayOfYear <= points[k].dayOfYear
              /\ points[k - 1].cumulative <= points[k].cumulative
        /\ Len(points) > 0 => points[Len(points)].cumulative = SumBy(own)

C25_CumulativeSeries ==
    series.called =>
        /\ IsCumulativeSeriesOf(series.year1Cumulative, series.data, series.year1)
        /\ IsCumulativeSeriesOf(series.year2Cumulative, series.data, series.year2)

\* a chart of two different years over records held out of order: the
\* later record of 2024 comes first in the data and last in its series
C25_Witness ==
    /\ series.called
    /\ series.year1 # series.year2
    /\ Len(series.year1Cumulative) + Len(series.year2Cumulative) = 4
    /\ \E k \in 2..Len(series.data) : series.data[k].Date < series.data[k - 1].Date
    /\ \E points \in {series.year1Cumulative, series.year2Cumulative} :
          /\ Len(points) = 2
          /\ points[1].cumulative = 3
          /\ points[2].cumulative = 5

(***************************************************************************)
(* C28: whenever the year-comparison chart is rendered, the compare year   *)
(* differs from the primary filter year.                                   *)
(***************************************************************************)
C28_NeverComparedWithItself == ComparisonRendered => compare.year # filters.year

\* the select "Compare with" never offers the filter year
C28_ChoiceDiffers ==
    [][compare'.year # compare.year => compare'.year # filters.year]_vars

C28_YearChosen == ComparisonRendered /\ compare.year # filters.year

(***************************************************************************)
(* C26: every interpreter that an initPyodide call resolves to, and that   *)
(* runPython therefore runs code on, has finished loading pandas, numpy    *)
(* and micropip and installing plotly, also when the call is made while an *)
(* earlier call is loading packages or after an earlier one failed there.  *)
(***************************************************************************)
C26_ResolvedInterpreterLoaded == \A id \in resolvedTo : ready[id] = 2

(***************************************************************************)
(* C27: CalendarHeatmap calls the same hooks in the same order on every    *)
(* render, whether its data is empty or not, so a filter change that makes *)
(* the filtered data empty, or non-empty again, while the heatmap stays    *)
(* mounted cannot crash the dashboard.                                     *)
(***************************************************************************)
C27_SameHooksEveryRender == ~hooks.crashed

\* a render of the mounted heatmap fails only when its data has become
\* empty after a render with data, or the reverse
C27_FailsOnlyOnFlip ==
    [][(hooks'.crashed /\ ~hooks.crashed)
       => (hooks.count = Len(HooksOf(<<>>))) # (Len(FilteredData) = 0)]_vars

\* a filter change with the heatmap mounted and data before and after it
C27_FilterChangedMounted ==
    /\ hooks.mounted /\ ~hooks.crashed /\ Rendered
    /\ filters.type = "Month"
    /\ Len(FilteredData) > 0

(***************************************************************************)
(* C29: the self/others split assigns every record to exactly one of the   *)
(* two buckets, to 'For Others' exactly when the record's for-others flag  *)
(* is set, for records of the normalizer and of the demo generator alike;  *)
(* the two bucket totals sum to the total of all amounts.                  *)
(***************************************************************************)
\* the total of a bucket, 0 when the chart has no such bucket
BucketTotal(key) ==
    LET entries == SelectSeq(split.forOthersData, LAMBDA e : e.key = key)
    IN  IF entries = <<>> THEN 0 ELSE entries[1].value

\* the flag as its producer writes it: 1 from the normalizer, true from
\* the generator
FlagSet(row) == row.forOthers \in {"num:1", "bool:true"}

SplitOf(rows) ==
    /\ \A i \in 1..Len(split.forOthersData) :
          /\ split.forOthersData[i].key \in {"For Others", "For Myself"}
          /\ \A j \in 1..Len(split.forOthersData) :
                split.forOthersData[i].key = split.forOthersData[j].key => i = j
    /\ BucketTotal("For Others") = SumBy(SelectSeq(rows, FlagSet))
    /\ BucketTotal("For Myself") = SumBy(SelectSeq(rows, LAMBDA row : ~FlagSet(row)))
    /\ BucketTotal("For Others") + BucketTotal("For Myself") = SumBy(rows)

C29_SplitByFlag == split.called => SplitOf(data)

\* the same for datasets made by the normalizer
C29_NormalizerSplitByFlag ==
    (split.called /\ \A i \in 1..Len(data) : data[i].producer = "normalizer")
        => SplitOf(data)

\* whatever the flags, the two totals add up to the total of the amounts
C29_TotalsAddUp ==
    split.called =>
        BucketTotal("For Others") + BucketTotal("For Myself") = SumBy(data)

\* a normalized dataset with a record in each bucket
C29_BothBuckets ==
    /\ split.called
    /\ \A i \in 1..Len(data) : data[i].producer = "normalizer"
    /\ BucketTotal("For Others") > 0
    /\ BucketTotal("For Myself") > 0

(***************************************************************************)
(* C30: whenever a dataset is displayed, isDemo (the 'Demo Mode' badge) is *)
(* true exactly when the current dataset was produced by                   *)
(* generateDummyData, under every interleaving of handleFileUpload and     *)
(* handleUseDemo.                                                          *)
(***************************************************************************)
\* the displayed records are those of a run of the generator (no upload of
\* the model delivers NumTransactions records)
ProducedByGenerator == \E seed \in DemoSeeds : rawData.rows = GenerateDummyData(seed)

C30_DemoBadgeMatchesData == ~rawData.null => (isDemo <=> ProducedByGenerator)

\* the step in which a demo load completes leaves the badge on, and an
\* upload that no demo load overtook leaves it off
C30_BadgeAtCompletion ==
    [][\A i \in 1..MaxLoads :
          Completes(i)
              => /\ loads'[i].kind = "demo" => isDemo'
                 /\ (loads'[i].kind = "upload"
                       /\ \A j \in (i + 1)..Len(loads') : loads'[j].kind # "demo")
                        => ~isDemo']_vars

\* an upload is displayed that was started before a demo load and resolved
\* without one in between
C30_UploadDisplayed ==
    /\ ~rawData.null /\ ~isDemo
    /\ \E i, j \in 1..Len(loads) :
          /\ i < j
          /\ loads[i].kind = "demo"
          /\ loads[j].kind = "upload" /\ loads[j].pc = "done"
          /\ rawData.rows = RecordsOf(loads[j])

====
